---- MODULE Spec2Model ----
(***************************************************************************)
(* Attic Viewer: the physics bridge (MujocoSimulationManager), the         *)
(* SimulationHandler that drives it from the UI, and the per-frame update. *)
(*                                                                         *)
(* mgr  : the fields of the MujocoSimulationManager object                 *)
(* eng  : the WASM engine: which native handles are live, the engine state *)
(* scn  : what the manager touches of the scene manager and the static     *)
(*        model (render roots attached/visible, drag controls)             *)
(* app  : AppState.currentMJCFFile / currentMJCFModel                      *)
(* pc   : how many in-flight handleMujocoToggleSimulate calls are          *)
(*        suspended at each await that really yields to the event loop     *)
(* clock: performance.now() at the last frame                              *)
(* obs  : what the last completed operation was and returned               *)
(* call : the last call of one of the program's pure functions: its name,  *)
(*        its arguments and what it returned                               *)
(***************************************************************************)
EXTENDS Integers, FiniteSets, Sequences, TLC

VARIABLES mgr, eng, scn, app, pc, clock, obs, call

vars == <<mgr, eng, scn, app, pc, clock, obs, call>>

(*************************** bounds ***************************************)
\* handleMujocoToggleSimulate calls that may be in flight at once
MaxInFlight == 2
\* native handle generations (and render roots) that exist at once
MaxHandles == 2
\* last value of performance.now() (ms) the frame callback is run with, in
\* the lifecycle specifications and in the stepping specification
MaxClock == 40
MaxStepClock == 72
\* the same in the drag-force specification
MaxForceClock == 52

(*************************** program constants ****************************)
\* update: "if (timeMS - this.mujoco_time > 35.0)"
CatchUpWindow == 35

Null == 0
\* update: "this.model.body_mass[bodyID] * 250"
DragGain == 250
Awaits == {"text", "init", "assets"}

\* frame gaps (ms) between two calls of App.animate, and compiled-model
\* timesteps (ms, model.opt.timestep * 1000), of the lifecycle specifications
FrameGaps == {40}
Timesteps == {20}
\* the richer sets used by the stepping specification
FineGaps == {16, 35, 36}
FineTimesteps == {5, 16}

\* the steps of loadScene that can throw
FailPoints == {"init", "writeXml", "compile", "state", "simulation", "scene"}

(*************************** helpers **************************************)
Handles == 1..MaxHandles

\* the native handles that exist, and the render roots that exist
UsedHandles == eng.liveModel \cup eng.liveState \cup eng.liveSim
UsedRoots == scn.attached \cup {mgr.mujocoRoot}
InFlight == pc.text + pc.init + pc.assets

\* a fresh handle generation / a fresh render root: the least free name
FreshHandle == CHOOSE h \in Handles : h \notin UsedHandles /\ \A g \in Handles : g < h => g \in UsedHandles
FreshRoot == CHOOSE r \in Handles : r \notin UsedRoots /\ \A g \in Handles : g < r => g \in UsedRoots

\* a render root nothing refers to any more is gone
collect(x) ==
    [x EXCEPT !.s.visible = @ \cap (x.s.attached \cup {x.m.mujocoRoot})]

\* the objects an operation works on; threw / touched record whether it
\* threw and whether it read or wrote a native handle
World == [m |-> mgr, e |-> eng, s |-> scn, threw |-> FALSE, touched |-> FALSE]

\* THREE.Vector3 as <<x, y, z>>
scale(v, k) == <<v[1] * k, v[2] * k, v[3] * k>>

\* no external force applied (data.qfrc_applied all zero) / no drag target
NoForce == [body |-> 0, force |-> <<0, 0, 0>>, point |-> <<0, 0, 0>>]
NoDrag == [body |-> 0, d |-> <<0, 0, 0>>, hit |-> <<0, 0, 0>>]

\* model.body_mass of the compiled model
body_mass(b) == b + 1

\* DragStateManager.enable / disable (src/utils/DragStateManager.js)
dsmEnable(m) == [m EXCEPT !.dragStateManager = "enabled"]

dsmDisable(m) ==
    [m EXCEPT !.dragStateManager = "disabled", !.dragActive = FALSE, !.drag = NoDrag]

\* native release of one handle of a kind; releasing a handle that is not
\* live is the engine's double-release error
release(e, kind, h) ==
    IF h = Null THEN e
    ELSE IF h \in e[kind] THEN [e EXCEPT ![kind] = @ \ {h}]
    ELSE [e EXCEPT !.doubleRelease = TRUE]

\* Simulation.free(): frees the simulation with the model and the state it
\* was constructed from (all three carry the generation of one load)
simFree(e, h) ==
    IF h \in e.liveSim
    THEN [e EXCEPT !.liveSim = @ \ {h}, !.liveModel = @ \ {h}, !.liveState = @ \ {h}]
    ELSE [e EXCEPT !.doubleRelease = TRUE]

(*************************** MujocoSimulationManager **********************)
\* clearScene, lines 890-909: the native handles are released by the calls
\* of the API variant the manager recorded, and the fields nulled
releaseHandles(x) ==
    LET m == x.m IN
    IF m.isOldAPI
    THEN [x EXCEPT !.e = release(release(x.e, "liveState", m.data), "liveModel", m.model),
                   !.m.data = Null, !.m.model = Null]
    ELSE [x EXCEPT !.e = IF m.simulation # Null THEN simFree(x.e, m.simulation) ELSE x.e,
                   !.m.simulation = Null, !.m.state = Null, !.m.model = Null]

\* clearScene, lines 912-936: /working is emptied only once the module exists
clearVFS(x) == IF x.m.mujoco THEN [x EXCEPT !.e.vfs = {}] ELSE x

\* clearScene, lines 939-944
clearRoot(x) ==
    IF x.m.mujocoRoot # Null
    THEN [x EXCEPT !.s.attached = @ \ {x.m.mujocoRoot}, !.m.mujocoRoot = Null]
    ELSE x

\* a clearScene that disables the drag manager and keeps the object
clearDragKept(m) == IF m.dragStateManager # "null" THEN dsmDisable(m) ELSE m

\* clearScene, lines 947-953
clearDrag(m) ==
    IF m.dragStateManager # "null"
    THEN [dsmDisable(m) EXCEPT !.dragStateManager = "null"]
    ELSE m

\* clearScene, lines 888-961
clearScene(x) ==
    LET x1 == clearRoot(clearVFS(releaseHandles(x)))
    IN  collect([x1 EXCEPT !.m = [clearDrag(x1.m) EXCEPT !.isLoaded = FALSE,
                                                         !.isSimulating = FALSE,
                                                         !.paused = TRUE]])

\* startSimulation, lines 817-848
startSimulation(x) ==
    LET m == x.m
        m1 == [m EXCEPT !.paused = FALSE, !.isSimulating = TRUE]
        s1 == IF m.mujocoRoot # Null
              THEN [x.s EXCEPT !.attached = @ \cup {m.mujocoRoot},
                               !.visible = @ \cup {m.mujocoRoot}]
              ELSE x.s
        s2 == IF s1.currentModel THEN [s1 EXCEPT !.staticVisible = FALSE] ELSE s1
        m2 == IF m.dragStateManager # "null" THEN dsmEnable(m1) ELSE m1
    IN  [x EXCEPT !.m = m2, !.s = [s2 EXCEPT !.dragControls = FALSE]]

\* a pauseSimulation that leaves the physics drag manager as it is
pauseLeavesDrag(x) ==
    [x EXCEPT !.m.paused = TRUE, !.m.isSimulating = FALSE,
              !.s.visible = @ \ {x.m.mujocoRoot}, !.s.dragControls = TRUE]

\* pauseSimulation, lines 853-871
pauseSimulation(x) ==
    LET m == x.m
        m1 == [m EXCEPT !.paused = TRUE, !.isSimulating = FALSE]
        m2 == IF m.dragStateManager # "null" THEN dsmDisable(m1) ELSE m1
        s1 == IF m.mujocoRoot # Null
              THEN [x.s EXCEPT !.visible = @ \ {m.mujocoRoot}]
              ELSE x.s
    IN  [x EXCEPT !.m = m2, !.s = [s1 EXCEPT !.dragControls = TRUE]]

\* toggleSimulation, lines 876-883; its return value is ~paused afterwards
toggleSimulation(x) ==
    IF x.m.paused THEN startSimulation(x) ELSE pauseSimulation(x)

\* a reset that also pauses the simulation
resetAndPause(x) ==
    IF x.m.model = Null THEN x
    ELSE [x EXCEPT !.e.status = "initial", !.m.mujoco_time = 0, !.touched = TRUE,
                   !.m.paused = TRUE, !.m.isSimulating = FALSE]

\* reset, lines 797-812
reset(x) ==
    LET m == x.m IN
    IF m.model = Null THEN x
    ELSE IF m.isOldAPI
    THEN IF m.data = Null
         THEN [x EXCEPT !.threw = TRUE, !.touched = TRUE]
         ELSE [x EXCEPT !.e.status = "initial", !.m.mujoco_time = 0, !.touched = TRUE,
                        !.e.qfrc = NoForce]
    ELSE IF m.simulation = Null
         THEN [x EXCEPT !.threw = TRUE]
         ELSE [x EXCEPT !.e.status = "initial", !.m.mujoco_time = 0, !.touched = TRUE]

\* the stepping loop of update, lines 714-770: one physics step per
\* iteration, mujoco_time advanced by timestep * 1000 each time
RECURSIVE stepLoop(_, _, _, _)
stepLoop(t, timeMS, ts, n) ==
    IF t < timeMS THEN stepLoop(t + ts, timeMS, ts, n + 1)
    ELSE [t |-> t, n |-> n]

\* a conversion to engine coordinates that flips no sign
toMujocoPosUnsigned(v) == <<v[1], v[3], v[2]>>

\* toMujocoPos, lines 790-792
toMujocoPos(v) == <<v[1], -v[3], v[2]>>

\* update, lines 739-745: the spring force of the drag and its application
\* point, in engine coordinates
dragForce(drag) ==
    [body |-> drag.body,
     force |-> toMujocoPos(scale(drag.d, body_mass(drag.body) * DragGain)),
     point |-> toMujocoPos(drag.hit)]

\* update, lines 715-766: what the last of n iterations of the stepping loop
\* leaves in the applied-force buffer (every iteration does the same)
stepForces(x, n) ==
    IF n = 0 THEN x.e.qfrc
    ELSE IF x.m.isOldAPI
    THEN IF x.m.dragStateManager # "null" /\ x.m.dragActive /\ x.m.drag.body # 0
         THEN dragForce(x.m.drag)
         ELSE NoForce
    ELSE x.e.qfrc

\* a conversion that copies the components as they are
getPositionPlain(buffer, index, swizzle) ==
    <<buffer[index * 3 + 1], buffer[index * 3 + 2], buffer[index * 3 + 3]>>

\* getPosition, lines 659-673: entry index of a flat buffer of engine
\* positions (buffer[index*3 + k] is the sequence's element index*3 + k + 1)
getPosition(buffer, index, swizzle) ==
    IF swizzle
    THEN <<buffer[index * 3 + 1], buffer[index * 3 + 3], -buffer[index * 3 + 2]>>
    ELSE <<buffer[index * 3 + 1], buffer[index * 3 + 2], buffer[index * 3 + 3]>>

\* getQuaternion, lines 678-694: entry index of a flat buffer of engine
\* quaternions (w, x, y, z) as the render quaternion (x, y, z, w)
getQuaternion(buffer, index, swizzle) ==
    IF swizzle
    THEN <<-buffer[index * 4 + 2], -buffer[index * 4 + 4],
           buffer[index * 4 + 3], -buffer[index * 4 + 1]>>
    ELSE <<buffer[index * 4 + 2], buffer[index * 4 + 3],
           buffer[index * 4 + 4], buffer[index * 4 + 1]>>

\* data.xpos / simulation.xpos and xquat of a model of two bodies, the world
\* and one free body: where the engine has the bodies before and after it
\* advanced
xpos(e) ==
    IF e.status = "initial" THEN <<0, 0, 0, 1, 2, 3>> ELSE <<0, 0, 0, 1, 2, 1>>
xquat(e) ==
    IF e.status = "initial" THEN <<1, 0, 0, 0, 1, 0, 0, 0>>
    ELSE <<1, 0, 0, 0, 0, 1, 0, 0>>
bodyIds == {0, 1}
NoPoses == <<>>

\* a copy that is left out while the simulation is paused
copyPosesUnlessPaused(x) ==
    IF x.m.paused THEN NoPoses
    ELSE [b \in bodyIds |->
             [position |-> getPosition(xpos(x.e), b, TRUE),
              quaternion |-> getQuaternion(xquat(x.e), b, TRUE)]]

\* update, lines 773-784: position and quaternion of every body group after
\* the copy from the engine
copyPoses(x) ==
    [b \in bodyIds |->
        [position |-> getPosition(xpos(x.e), b, TRUE),
         quaternion |-> getQuaternion(xquat(x.e), b, TRUE)]]

\* an update that never skips a backlog
syncTimeNoSnap(t, timeMS) == t

\* the time synchronisation of update, lines 709-711
syncTime(t, timeMS) == IF timeMS - t > CatchUpWindow THEN timeMS ELSE t

\* update, lines 699-785; the result carries the number of physics steps
update(x, timeMS) ==
    LET m == x.m
        none == [x |-> x, n |-> 0, snapped |-> FALSE, poses |-> NoPoses]
    IN
    IF ~m.isLoaded \/ m.model = Null THEN none
    ELSE
      LET t0 == IF m.paused THEN m.mujoco_time ELSE syncTime(m.mujoco_time, timeMS)
          r == IF m.paused THEN [t |-> t0, n |-> 0]
               ELSE stepLoop(t0, timeMS, x.e.timestep, 0)
          h == IF m.isOldAPI THEN m.data ELSE m.simulation
      IN
      IF h = Null
      \* data.qfrc_applied / simulation.step() / data.xpos on null
      THEN [x |-> [x EXCEPT !.threw = TRUE, !.touched = TRUE,
                            !.m.mujoco_time = t0],
            n |-> 0, snapped |-> t0 # m.mujoco_time, poses |-> NoPoses]
      ELSE LET y == [x EXCEPT !.touched = TRUE,
                              !.m.mujoco_time = r.t,
                              !.e.qfrc = stepForces(x, r.n),
                              !.e.status = IF r.n > 0 THEN "advanced" ELSE @]
           IN  [x |-> y, n |-> r.n, snapped |-> t0 # m.mujoco_time,
                poses |-> copyPoses(y)]

\* toggleCollisionDisplay and the other toggle*Display, lines 991-1148:
\* guarded by mujocoRoot, then read this.model.nbody
toggleDisplay(x) ==
    IF x.m.mujocoRoot = Null THEN x
    ELSE IF x.m.model = Null THEN [x EXCEPT !.threw = TRUE]
    ELSE [x EXCEPT !.touched = TRUE]

\* init, lines 48-67, after its awaits: a fresh module with an empty /working
initModule(x) == [x EXCEPT !.m.mujoco = TRUE, !.e.vfs = {}]

\* loadScene, lines 101-140, from the model compilation to the return: no
\* await in this stretch yields to the event loop (createThreeScene never
\* suspends). h is the generation of the handles this load creates, r its
\* render root, f the step that throws ("none": no step does), ts the
\* compiled timestep.
compileAndBuild(x, h, r, f, ts) ==
    LET old == x.e.apiOld
        x1 == [x EXCEPT !.m.model = h, !.e.liveModel = @ \cup {h},
                        !.e.timestep = ts]
        x2 == IF old
              THEN [x1 EXCEPT !.m.data = h, !.e.liveState = @ \cup {h},
                              !.m.isOldAPI = TRUE]
              ELSE [x1 EXCEPT !.m.state = h, !.e.liveState = @ \cup {h}]
        x3 == IF old THEN x2
              ELSE [x2 EXCEPT !.m.simulation = h, !.e.liveSim = @ \cup {h}]
        \* createThreeScene, lines 331-497: the root is assigned first
        x4 == collect([x3 EXCEPT !.m.mujocoRoot = r])
        x5 == [x4 EXCEPT !.e.status = "initial", !.m.isLoaded = TRUE,
                         !.m.paused = TRUE,
                         !.m.dragStateManager =
                             IF @ = "null" THEN "disabled" ELSE @]
    IN
    IF f = "compile" THEN [x |-> x, ok |-> FALSE]
    ELSE IF f = "state" THEN [x |-> x1, ok |-> FALSE]
    ELSE IF f = "simulation" /\ ~old THEN [x |-> x2, ok |-> FALSE]
    ELSE IF f = "scene" THEN [x |-> x4, ok |-> FALSE]
    ELSE [x |-> x5, ok |-> TRUE]

\* loadScene, lines 83-99, from clearScene to the await of writeAssetsToVFS
clearAndStage(x, f) ==
    LET x1 == clearScene(x) IN
    IF f = "writeXml" THEN [x |-> x1, ok |-> FALSE]
    ELSE [x |-> [x1 EXCEPT !.e.vfs = @ \cup {"xml"}], ok |-> TRUE]

(*************************** SimulationHandler ****************************)
\* handleMujocoToggleSimulate, lines 40-47: after loadScene resolved
afterLoad(x) ==
    startSimulation([x EXCEPT !.s.staticVisible =
                                  IF x.s.currentModel THEN FALSE ELSE @])

\* a toggle that leaves the static model's visibility to the manager
handlerToggleOnly(x) == toggleSimulation(x)

\* handleMujocoToggleSimulate, lines 54-64: the toggle branch
handlerToggle(x) ==
    LET y == toggleSimulation(x) IN
    [y EXCEPT !.s.staticVisible = IF y.s.currentModel THEN y.m.paused ELSE @]

(*************************** initial state ********************************)
\* constructor, lines 14-43; AppState constructor; a scene with no model
Init ==
    /\ mgr = [mujoco |-> FALSE, model |-> Null, state |-> Null,
              simulation |-> Null, data |-> Null, mujocoRoot |-> Null,
              dragStateManager |-> "null", dragActive |-> FALSE,
              drag |-> NoDrag,
              paused |-> TRUE, mujoco_time |-> 0,
              isLoaded |-> FALSE, isSimulating |-> FALSE, isOldAPI |-> FALSE]
    /\ \E old \in BOOLEAN :
         eng = [apiOld |-> old, liveModel |-> {}, liveState |-> {}, liveSim |-> {},
                doubleRelease |-> FALSE, status |-> "initial", timestep |-> 0,
                vfs |-> {}, qfrc |-> NoForce]
    /\ scn = [attached |-> {}, visible |-> {}, currentModel |-> FALSE,
              staticVisible |-> FALSE, dragControls |-> TRUE]
    /\ app = [currentMJCF |-> FALSE]
    /\ pc = [text |-> 0, init |-> 0, assets |-> 0]
    /\ clock = 0
    /\ call = [fn |-> "none", arg |-> <<>>, ret |-> <<>>]
    /\ obs = [op |-> "new", ret |-> "none", fail |-> "none", steps |-> 0,
              snapped |-> FALSE, dragged |-> FALSE, poses |-> NoPoses]

(*************************** actions **************************************)
\* the observation left by an operation: its name, what it returned, and
\* whether a body was dragged since the simulation was last started
Seen(op, ret) ==
    [op |-> op, ret |-> ret, fail |-> "none", steps |-> 0, snapped |-> FALSE,
     poses |-> NoPoses,
     dragged |-> IF op \in {"toggleOff", "pause", "update", "reset", "toggleDisplay"}
                 THEN obs.dragged ELSE FALSE]

Commit(x, o) ==
    /\ mgr' = x.m
    /\ eng' = x.e
    /\ scn' = x.s
    /\ obs' = o

\* the rest of loadScene and of the handler once the module is there: runs to
\* the await of writeAssetsToVFS, to the end, or to the throw
compileOn(x, f, ts) ==
    LET b == compileAndBuild(x, FreshHandle, FreshRoot, f, ts) IN
    IF b.ok THEN [x |-> afterLoad(b.x), at |-> "done"]
    ELSE [x |-> b.x, at |-> "failed"]

stageOn(x, f, assets, ts) ==
    LET a == clearAndStage(x, f) IN
    IF ~a.ok THEN [x |-> a.x, at |-> "failed"]
    ELSE IF assets THEN [x |-> a.x, at |-> "assets"]
    ELSE compileOn(a.x, f, ts)

\* the handler's try / catch around loadScene, part_004 lines 29-51: true
\* after startSimulation, false from the catch
Settle(from, r, f) ==
    /\ pc' = IF r.at = "assets" /\ from # "assets"
             THEN [pc EXCEPT ![from] = @ - 1, !.assets = @ + 1]
             ELSE [pc EXCEPT ![from] = @ - 1]
    /\ Commit(r.x,
              IF r.at = "assets" THEN Seen("staged", "none")
              ELSE IF r.at = "done" THEN Seen("loadOk", "true")
              ELSE [Seen("loadFailed", "false") EXCEPT !.fail = f])

\* a test for the load branch that turns a second call away while a load is
\* in flight
loadsFirstSingleFlight(m, a, inFlight) ==
    ~m.isLoaded /\ a.currentMJCF /\ inFlight = 0

\* handleMujocoToggleSimulate, part_004 lines 26-28: the test for the load
\* branch, !hasScene() and an MJCF file and model being current; the loads
\* in flight are not part of it
loadsFirst(m, a, inFlight) == ~m.isLoaded /\ a.currentMJCF

\* handleMujocoToggleSimulate, part_004 lines 26-30: no scene yet and an MJCF
\* file is current; suspends at "await currentMJCFFile.text()"
ToggleLoad ==
    /\ loadsFirst(mgr, app, InFlight)
    /\ InFlight < MaxInFlight
    /\ Cardinality(UsedHandles) + InFlight < MaxHandles
    /\ Cardinality(UsedRoots \ {Null}) + InFlight < MaxHandles
    /\ pc' = [pc EXCEPT !.text = @ + 1]
    /\ UNCHANGED <<mgr, eng, scn, app, clock, obs, call>>

\* handleMujocoToggleSimulate, part_004 lines 54-65: the toggle branch
ToggleSim ==
    /\ ~loadsFirst(mgr, app, InFlight)
    /\ LET x == handlerToggle(World) IN
       Commit(x, Seen(IF x.m.paused THEN "toggleOff" ELSE "toggleOn",
                      IF x.m.paused THEN "false" ELSE "true"))
    /\ UNCHANGED <<app, pc, clock, call>>

\* text() resolved: loadScene is called (part_004 lines 33-38), and suspends in
\* init when the module is not there yet (lines 79-81)
TextDone(f, assets, ts) ==
    /\ pc.text > 0
    /\ IF ~app.currentMJCF
       \* currentMJCFFile.name on null: caught, the handler returns false
       THEN /\ pc' = [pc EXCEPT !.text = @ - 1]
            /\ Commit(World, Seen("handlerFailed", "false"))
       ELSE IF ~mgr.mujoco
       THEN /\ pc' = [pc EXCEPT !.text = @ - 1, !.init = @ + 1]
            /\ UNCHANGED <<mgr, eng, scn, obs>>
       ELSE Settle("text", stageOn(World, f, assets, ts), f)
    /\ UNCHANGED <<app, clock, call>>

\* init resolved or rejected, lines 55-66, then loadScene goes on
InitDone(f, assets, ts) ==
    /\ pc.init > 0
    /\ IF f = "init"
       THEN Settle("init", [x |-> World, at |-> "failed"], f)
       ELSE Settle("init", stageOn(initModule(World), f, assets, ts), f)
    /\ UNCHANGED <<app, clock, call>>

\* writeAssetsToVFS resolved, lines 97-99, then loadScene goes on
AssetsDone(f, ts) ==
    /\ pc.assets > 0
    /\ f \notin {"init", "writeXml"}
    /\ Settle("assets", compileOn([World EXCEPT !.e.vfs = @ \cup {"assets"}], f, ts), f)
    /\ UNCHANGED <<app, clock, call>>

\* App.handleModelLoaded, part_003 lines 293-299, with
\* ModelHandler.setupMJCFSimulationControls and handleModelLoaded
ModelLoaded(mjcf) ==
    /\ LET x == IF mgr.isLoaded THEN clearScene(World) ELSE World
           y == [x EXCEPT !.s.currentModel = TRUE, !.s.staticVisible = TRUE]
       IN Commit(y, Seen("modelLoaded", "none"))
    /\ app' = [app EXCEPT !.currentMJCF = mjcf]
    /\ UNCHANGED <<pc, clock, call>>

\* SimulationHandler.handleMujocoReset, part_004 lines 14-19, and reset; an
\* exception thrown by reset leaves the state as it was
Reset ==
    /\ LET x == reset(World) IN Commit(x, Seen("reset", "none"))
    /\ UNCHANGED <<app, pc, clock, call>>

ClearScene ==
    /\ LET x == clearScene(World) IN Commit(x, Seen("clearScene", "none"))
    /\ UNCHANGED <<app, pc, clock, call>>

StartSimulation ==
    /\ LET x == startSimulation(World) IN Commit(x, Seen("start", "none"))
    /\ UNCHANGED <<app, pc, clock, call>>

PauseSimulation ==
    /\ LET x == pauseSimulation(World) IN Commit(x, Seen("pause", "none"))
    /\ UNCHANGED <<app, pc, clock, call>>

ToggleSimulation ==
    /\ LET x == toggleSimulation(World) IN
       Commit(x, Seen(IF x.m.paused THEN "pause" ELSE "start",
                      IF x.m.paused THEN "false" ELSE "true"))
    /\ UNCHANGED <<app, pc, clock, call>>

ToggleDisplay ==
    /\ LET x == toggleDisplay(World) IN Commit(x, Seen("toggleDisplay", "none"))
    /\ UNCHANGED <<app, pc, clock, call>>

\* one frame: App.animate, part_003 lines 431-442, calling update(now)
Update(dt, max) ==
    /\ clock + dt <= max
    /\ clock' = clock + dt
    /\ LET r == update(World, clock + dt) IN
       Commit(r.x, [Seen("update", "none") EXCEPT !.steps = r.n, !.snapped = r.snapped,
                                                  !.poses = r.poses])
    /\ UNCHANGED <<app, pc, call>>

\* pointer events on the physics drag controller while it is enabled
DragStart(target) ==
    /\ mgr.dragStateManager = "enabled" /\ ~mgr.dragActive
    /\ mgr' = [mgr EXCEPT !.dragActive = TRUE, !.drag = target]
    /\ obs' = [obs EXCEPT !.dragged = TRUE]
    /\ UNCHANGED <<eng, scn, app, pc, clock, call>>

DragEnd ==
    /\ mgr.dragActive
    /\ mgr' = [mgr EXCEPT !.dragActive = FALSE, !.drag = NoDrag]
    /\ UNCHANGED <<eng, scn, app, pc, clock, obs, call>>

Fails == FailPoints \cup {"none"}

\* what a drag holds: the body hit, the hit point and the pointer's
\* displacement from it, in render coordinates
DragTargets == {[body |-> 1, d |-> <<1, 2, 3>>, hit |-> <<1, 0, 2>>]}
FineDragTargets ==
    {[body |-> b, d |-> d, hit |-> <<1, 0, 2>>] :
        b \in {1, 2}, d \in {<<1, 2, 3>>, <<0, -1, 2>>}}

\* the application: the handler, model loads, Unload, frames and drags, with
\* loads overlapping at their awaits
NextApp ==
    \/ ToggleLoad
    \/ ToggleSim
    \/ \E f \in Fails, a \in BOOLEAN, ts \in Timesteps : TextDone(f, a, ts)
    \/ \E f \in Fails, a \in BOOLEAN, ts \in Timesteps : InitDone(f, a, ts)
    \/ \E f \in Fails, ts \in Timesteps : AssetsDone(f, ts)
    \/ \E mjcf \in BOOLEAN : ModelLoaded(mjcf)
    \/ Reset
    \/ ClearScene
    \/ \E dt \in FrameGaps : Update(dt, MaxClock)
    \/ \E target \in DragTargets : DragStart(target)
    \/ DragEnd

\* the same, with the manager's methods also called directly
Next ==
    \/ NextApp
    \/ StartSimulation
    \/ PauseSimulation
    \/ ToggleSimulation
    \/ ToggleDisplay

\* one load at a time and no step of it failing, frames at fine-grained times
NextStep ==
    \/ ModelLoaded(TRUE)
    \/ InFlight = 0 /\ ToggleLoad
    \/ ToggleSim
    \/ \E ts \in FineTimesteps : TextDone("none", FALSE, ts)
    \/ \E ts \in FineTimesteps : InitDone("none", FALSE, ts)
    \/ Reset
    \/ \E dt \in FineGaps : Update(dt, MaxStepClock)

Spec == Init /\ [][Next]_vars

SpecApp == Init /\ [][NextApp]_vars

SpecStep == Init /\ [][NextStep]_vars

\* one load at a time, no step failing, frames and drags on a simulating scene
NextForce ==
    \/ ModelLoaded(TRUE)
    \/ InFlight = 0 /\ ToggleLoad
    \/ ToggleSim
    \/ \E ts \in FineTimesteps : TextDone("none", FALSE, ts)
    \/ \E ts \in FineTimesteps : InitDone("none", FALSE, ts)
    \/ \E target \in FineDragTargets : DragStart(target)
    \/ DragEnd
    \/ \E dt \in {16, 36} : Update(dt, MaxForceClock)

SpecForce == Init /\ [][NextForce]_vars

(*************************** the state machine ****************************)
Unloaded == ~mgr.isLoaded /\ ~mgr.isSimulating /\ mgr.paused
LoadedPaused == mgr.isLoaded /\ ~mgr.isSimulating /\ mgr.paused
Simulating == mgr.isLoaded /\ mgr.isSimulating /\ ~mgr.paused

RootVisible == mgr.mujocoRoot # Null /\ mgr.mujocoRoot \in scn.visible
StaticVisible == scn.currentModel /\ scn.staticVisible
NoHandleHeld ==
    /\ mgr.model = Null /\ mgr.data = Null /\ mgr.simulation = Null
    /\ mgr.state = Null

\* C1: after any sequence of loadScene, startSimulation, pauseSimulation,
\* toggleSimulation, reset and clearScene, directly or through the handler,
\* the manager is unloaded, loaded-paused or simulating; in particular it
\* is never simulating while not loaded.
C1_ThreeStates == Unloaded \/ LoadedPaused \/ Simulating

\* C2: clearScene, called in any reachable state, does not fail and leaves
\* the manager unloaded with model, data, simulation, mujocoRoot and
\* dragStateManager all null.
C2_ClearSceneUnloads ==
    obs.op = "clearScene" =>
        /\ Unloaded
        /\ mgr.model = Null /\ mgr.data = Null /\ mgr.simulation = Null
        /\ mgr.mujocoRoot = Null /\ mgr.dragStateManager = "null"
        /\ ~eng.doubleRelease

\* clearScene has run with the engine module initialised, a compiled model
\* still live in the engine and another load in flight
C2_Witness ==
    obs.op = "clearScene" /\ mgr.mujoco /\ InFlight > 0 /\ eng.liveModel # {}

\* C3: the physics render root and the static model's render tree are never
\* both visible.
C3_NeverBothVisible == ~(RootVisible /\ StaticVisible)

\* C4: when the handler toggles the simulation off, the static model is
\* visible again, the physics root hidden, the physics drag controller
\* disabled and the static model's drag controls enabled, whether or not a
\* body was dragged in between.
C4_ToggleOffRestores ==
    obs.op = "toggleOff" /\ scn.currentModel =>
        /\ scn.staticVisible
        /\ ~RootVisible
        /\ mgr.dragStateManager # "enabled" /\ ~mgr.dragActive
        /\ scn.dragControls

\* a loaded scene was simulated, a body dragged, and the handler toggled off
C4_Witness ==
    /\ obs.op = "toggleOff" /\ obs.dragged /\ scn.currentModel
    /\ mgr.isLoaded /\ mgr.mujocoRoot # Null /\ mgr.dragStateManager = "disabled"

C6_HandlesReleasedOnce ==
    /\ eng.liveModel \subseteq {mgr.model}
    /\ eng.liveState \subseteq {mgr.state, mgr.data}
    /\ eng.liveSim \subseteq {mgr.simulation}
    /\ Cardinality(eng.liveModel) <= 1
    /\ ~eng.doubleRelease

\* C7: once the manager is unloaded, update, reset and toggle*Display are
\* no-ops: they change nothing, touch no native handle and throw nothing.
C7_NoOpsWhenUnloaded ==
    ~mgr.isLoaded =>
        /\ reset(World) = World
        /\ \A t \in {clock, clock + 40} : update(World, t).x = World
        /\ toggleDisplay(World) = World

\* C8: a loadScene that fails leaves the manager unloaded, holding no native
\* handle and no render root, and the handler returns false with the static
\* model visible.
C8_FailedLoadUnloads ==
    obs.op = "loadFailed" =>
        /\ Unloaded
        /\ NoHandleHeld
        /\ mgr.mujocoRoot = Null
        /\ obs.ret = "false"
        /\ scn.currentModel => scn.staticVisible

CeilDiv(a, b) == (a + b - 1) \div b

\* reset() on a loaded manager zeroes mujoco_time, restores the engine's
\* initial state and changes neither the flags nor any visibility
ResetKeepsFlags ==
    Reset /\ mgr.isLoaded =>
        /\ mgr'.mujoco_time = 0 /\ eng'.status = "initial"
        /\ mgr'.paused = mgr.paused /\ mgr'.isSimulating = mgr.isSimulating
        /\ mgr'.isLoaded
        /\ scn' = scn

\* the step is an update that directly follows a reset of a simulating manager
UpdateAfterReset == obs.op = "reset" /\ Simulating /\ clock' > clock

\* C9: reset() on a loaded manager sets mujoco_time to 0 and the engine to
\* its initial state, leaves paused, isSimulating, isLoaded and visibility
\* unchanged, and a simulating manager keeps stepping on the next update.
C9_ResetKeepsStepping ==
    [][ResetKeepsFlags /\ (UpdateAfterReset => Simulating' /\ obs'.steps > 0)]_vars

\* C9 as the code has it: reset() on a loaded manager sets mujoco_time to 0
\* and the engine to its initial state and leaves paused, isSimulating,
\* isLoaded and visibility unchanged; a simulating manager stays simulating,
\* but the next update(timeMS) with timeMS > 35 only moves mujoco_time to
\* timeMS without a physics step (with timeMS <= 35 it steps), and any update
\* that finds mujoco_time at most 35 ms behind timeMS steps again.
C9_ResetThenResync ==
    [][/\ ResetKeepsFlags
       /\ UpdateAfterReset =>
            /\ Simulating'
            /\ IF clock' > CatchUpWindow
               THEN obs'.steps = 0 /\ obs'.snapped /\ mgr'.mujoco_time = clock'
               ELSE obs'.steps > 0 /\ mgr'.mujoco_time >= clock'
       /\ (Simulating /\ clock' > clock
            /\ clock' - mgr.mujoco_time \in 1..CatchUpWindow) => obs'.steps > 0
      ]_vars

\* a simulating manager, its physics root shown, was reset later than 35 ms
C9_Witness ==
    /\ obs.op = "reset" /\ Simulating /\ clock > CatchUpWindow
    /\ mgr.mujoco_time = 0 /\ eng.status = "initial"
    /\ RootVisible /\ ~scn.staticVisible

\* C10: an update(timeMS) of a simulating manager that finds mujoco_time more
\* than 35 ms behind timeMS sets mujoco_time to timeMS and takes no step;
\* otherwise it steps, timestep*1000 ms per step, until mujoco_time >= timeMS;
\* no update takes more than ceil(35 / (timestep*1000)) steps.
C10_CatchUpBounded ==
    [][(Simulating /\ clock' > clock) =>
          LET ts == eng.timestep
              t1 == mgr'.mujoco_time
          IN  /\ IF clock' - mgr.mujoco_time > CatchUpWindow
                 THEN t1 = clock' /\ obs'.steps = 0
                 ELSE /\ t1 = mgr.mujoco_time + obs'.steps * ts
                      /\ t1 >= clock'
                      /\ obs'.steps > 0 => t1 - ts < clock'
              /\ obs'.steps <= CeilDiv(CatchUpWindow, ts)
      ]_vars

\* an update took as many steps as the bound allows
C10_Witness ==
    /\ obs.op = "update" /\ Simulating /\ ~obs.snapped
    /\ obs.steps = CeilDiv(CatchUpWindow, eng.timestep) /\ obs.steps > 3

(*************************** coordinate conversions ************************)
\* the rest of the program stands still while a pure function is called
prog == <<mgr, eng, scn, app, pc, clock, obs>>

MaxCoord == 2
Coords == (0 - MaxCoord)..MaxCoord
Vectors == Coords \X Coords \X Coords
\* xpos buffers of two bodies: a fixed first entry and any second one
Buffers == {<<7, 8, 9>> \o v : v \in Vectors}

\* update, lines 773-784: the pose copy reads body b's position
CallGetPosition(buffer, b) ==
    /\ call' = [fn |-> "getPosition", arg |-> <<buffer, b>>,
                ret |-> getPosition(buffer, b, TRUE)]
    /\ UNCHANGED prog

\* update, lines 739-745: a render-frame vector goes to the engine
CallToMujocoPos(p) ==
    /\ call' = [fn |-> "toMujocoPos", arg |-> p, ret |-> toMujocoPos(p)]
    /\ UNCHANGED prog

\* render -> engine -> render: the vector toMujocoPos returned is read back
\* with getPosition
CallBackToRender ==
    /\ call.fn = "toMujocoPos"
    /\ call' = [fn |-> "renderRoundTrip", arg |-> call.arg,
                ret |-> getPosition(call.ret, 0, TRUE)]
    /\ UNCHANGED prog

\* engine -> render -> engine: the vector getPosition returned goes through
\* toMujocoPos
CallBackToEngine ==
    /\ call.fn = "getPosition"
    /\ call' = [fn |-> "engineRoundTrip", arg |-> call.arg,
                ret |-> toMujocoPos(call.ret)]
    /\ UNCHANGED prog

NextCoord ==
    \/ \E buffer \in Buffers, b \in {0, 1} : CallGetPosition(buffer, b)
    \/ \E p \in Vectors : CallToMujocoPos(p)
    \/ CallBackToRender
    \/ CallBackToEngine

SpecCoord == Init /\ [][NextCoord]_vars

\* the engine position a getPosition call was made for
EnginePos(arg) == SubSeq(arg[1], arg[2] * 3 + 1, arg[2] * 3 + 3)

\* C12: getPosition with swizzle sends an engine position (x, y, z) to the
\* render position with x unchanged, z-component y and y-component -z.
C12_Swizzle ==
    call.fn = "getPosition" =>
        LET q == EnginePos(call.arg) IN
        /\ call.ret[1] = q[1]
        /\ call.ret[3] = q[2]
        /\ call.ret[2] = 0 - q[3]

\* C12 as the code has it: getPosition with swizzle sends an engine position
\* (x, y, z) to the render position (x, z, -y): x unchanged, y-component z
\* and z-component -y (engine-Z becomes render-Y, engine-Y render-(-Z)).
C12_SwizzleAsCoded ==
    call.fn = "getPosition" =>
        LET q == EnginePos(call.arg) IN
        call.ret = <<q[1], q[3], 0 - q[2]>>

\* the second body's position, all components different and non-zero, was
\* converted
C12_Witness ==
    /\ call.fn = "getPosition" /\ call.arg[2] = 1
    /\ EnginePos(call.arg) = <<1, 2, -1>> /\ call.ret = <<1, -1, -2>>

\* C13: toMujocoPos followed by getPosition (swizzle) returns the render
\* position it started from, and getPosition followed by toMujocoPos returns
\* the engine position it started from.
C13_RoundTrip ==
    /\ call.fn = "renderRoundTrip" => call.ret = call.arg
    /\ call.fn = "engineRoundTrip" => call.ret = EnginePos(call.arg)

\* a render position with three different non-zero components made the
\* round trip
C13_Witness ==
    call.fn = "renderRoundTrip" /\ call.arg = <<1, 2, -1>> /\ call.ret = <<1, 2, -1>>

(*************************** scene construction ****************************)
\* geoms of a compiled model the scene is built from
MaxGeoms == 3
MeshIds == {0, 1}
\* geom_group 0 (visual), 3 (collision proxy), 4 (skipped); geom_dataid is
\* the mesh of a mesh geom and -1 otherwise; the geoms sit on one body
GeomKinds ==
    {[group |-> gr, type |-> "box", dataid |-> -1, body |-> 1] : gr \in {0, 3, 4}}
    \cup {[group |-> gr, type |-> "mesh", dataid |-> id, body |-> 1] :
        gr \in {0, 3, 4}, id \in MeshIds}

\* the body whose name is a link of the Unified Model (when there is one)
LinkedBody == 1
\* material.wireframe of the Unified Model's visual materials
OriginalWireframe == FALSE

\* a scene builder that finds no mesh in its cache
meshNeverCached(meshes, meshID) == FALSE

\* createThreeScene, line 414: "meshID in meshes"
meshCached(meshes, meshID) == meshID \in DOMAIN meshes

\* createThreeScene, lines 370-484: the loop over the model's geoms from geom
\* g on. st.meshes is the local mesh cache (mesh id -> geometry object),
\* st.perm how often createMeshGeometry (lines 615-653) permuted each mesh's
\* vertex and normal buffers in place, st.serial the geometry objects made,
\* st.out the render meshes added to their bodies.
RECURSIVE geomLoop(_, _, _, _, _)
geomLoop(geoms, g, st, showCollision, hasOriginal) ==
    IF g > Len(geoms) THEN st
    ELSE
      LET gm == geoms[g] IN
      IF gm.group >= 4
      THEN geomLoop(geoms, g + 1, st, showCollision, hasOriginal)
      ELSE
        LET isMesh == gm.type = "mesh"
            hit == isMesh /\ meshCached(st.meshes, gm.dataid)
            \* a geometry object is what it is made from and when
            geometry == IF hit THEN st.meshes[gm.dataid]
                        ELSE [mesh |-> gm.dataid, serial |-> st.serial + 1]
            meshes1 == IF isMesh /\ ~hit
                       THEN [id \in DOMAIN st.meshes \cup {gm.dataid} |->
                               IF id = gm.dataid THEN geometry ELSE st.meshes[id]]
                       ELSE st.meshes
            perm1 == IF isMesh /\ ~hit
                     THEN [st.perm EXCEPT ![gm.dataid] = @ + 1]
                     ELSE st.perm
            usedOriginal == hasOriginal /\ gm.body = LinkedBody
            isCollisionGeom == gm.group = 3
            mesh == [geom |-> g, group |-> gm.group, body |-> gm.body,
                     geometry |-> geometry,
                     usedOriginalMaterial |-> usedOriginal,
                     wireframe |-> IF usedOriginal THEN OriginalWireframe
                                   ELSE isCollisionGeom,
                     isCollisionGeom |-> isCollisionGeom,
                     visible |-> IF isCollisionGeom THEN showCollision ELSE TRUE]
        IN geomLoop(geoms, g + 1,
                    [meshes |-> meshes1, perm |-> perm1,
                     serial |-> IF hit THEN st.serial ELSE st.serial + 1,
                     out |-> Append(st.out, mesh), poses |-> st.poses],
                    showCollision, hasOriginal)

\* createThreeScene, lines 331-497, on a freshly compiled model
createThreeScene(geoms, showCollision, hasOriginal) ==
    geomLoop(geoms, 1,
             [meshes |-> <<>>, perm |-> [id \in MeshIds |-> 0], serial |-> 0,
              out |-> <<>>, poses |-> 0],
             showCollision, hasOriginal)

\* update, lines 773-784: the per-frame pose copy writes the bodies' poses
poseCopy(scene) == [scene EXCEPT !.poses = 1 - @]

\* the compiled model grows by one geom
AddGeom(gm) ==
    /\ call.fn \in {"none", "model"}
    /\ Len(call.arg) < MaxGeoms
    /\ call' = [fn |-> "model", arg |-> Append(call.arg, gm), ret |-> <<>>]
    /\ UNCHANGED prog

\* loadScene, line 116: the scene is built from the compiled model
CallCreateThreeScene(showCollision, hasOriginal) ==
    /\ call.fn = "model"
    /\ call' = [fn |-> "createThreeScene",
                arg |-> [geoms |-> call.arg, showCollision |-> showCollision,
                         hasOriginal |-> hasOriginal],
                ret |-> createThreeScene(call.arg, showCollision, hasOriginal)]
    /\ UNCHANGED prog

\* a frame on the built scene
CallPoseCopy ==
    /\ call.fn \in {"createThreeScene", "poseCopy"}
    /\ call' = [call EXCEPT !.fn = "poseCopy", !.ret = poseCopy(call.ret)]
    /\ UNCHANGED prog

NextScene ==
    \/ \E gm \in GeomKinds : AddGeom(gm)
    \/ \E showCollision \in BOOLEAN, hasOriginal \in BOOLEAN :
          CallCreateThreeScene(showCollision, hasOriginal)
    \/ CallPoseCopy

SpecScene == Init /\ [][NextScene]_vars

SceneBuilt == call.fn \in {"createThreeScene", "poseCopy"}
\* the geoms of the model that are rendered and use mesh id
RenderedWith(id) ==
    {g \in 1..Len(call.arg.geoms) :
        /\ call.arg.geoms[g].group < 4
        /\ call.arg.geoms[g].type = "mesh"
        /\ call.arg.geoms[g].dataid = id}

\* C14: per loadScene the axis permutation is applied to a mesh's buffers
\* exactly once however many rendered geoms reference the mesh (and not at
\* all when none does), all geoms of one mesh id share one geometry object,
\* and the per-frame update permutes nothing.
C14_MeshPermutedOnce ==
    SceneBuilt =>
        /\ \A id \in MeshIds :
              call.ret.perm[id] = IF RenderedWith(id) = {} THEN 0 ELSE 1
        /\ \A i, j \in 1..Len(call.ret.out) :
              LET a == call.ret.out[i]
                  b == call.ret.out[j]
              IN (a.geometry.mesh \in MeshIds /\ a.geometry.mesh = b.geometry.mesh)
                    => a.geometry = b.geometry

\* three rendered geoms of one mesh, then a frame
C14_Witness ==
    /\ call.fn = "poseCopy"
    /\ Cardinality(RenderedWith(0)) = 3
    /\ call.ret.perm[0] = 1

\* C16: every rendered geom of group 3 is a wireframe mesh tagged
\* isCollisionGeom whose initial visibility is the collision toggle, also on
\* bodies whose material was copied from the Unified Model.
C16_CollisionWireframe ==
    call.fn = "createThreeScene" =>
        \A i \in 1..Len(call.ret.out) :
            LET m == call.ret.out[i] IN
            m.group = 3 =>
                /\ m.wireframe
                /\ m.isCollisionGeom
                /\ m.visible = call.arg.showCollision

(*************************** addGroundPlane ********************************)
\* an MJCF document as the sequence of its worldbody elements, a worldbody
\* as the sequence of its child elements
MaxElems == 3
MaxWorldbodies == 2
Geom(type, name) == [tag |-> "geom", type |-> type, name |-> name, kids |-> <<>>]
Body(kids) == [tag |-> "body", type |-> "", name |-> "", kids |-> kids]
\* children a worldbody is given: geoms with and without type="plane", and
\* bodies holding such geoms
Elems ==
    {Geom("plane", "floor"), Geom("box", ""), Body(<<>>),
     Body(<<Geom("plane", "floor")>>), Body(<<Geom("box", "")>>)}

\* addGroundPlane, lines 172-181: the geom it creates
groundGeom == Geom("plane", "ground")

\* worldbody.querySelector('geom[type="plane"]'), line 163: a plane geom
\* among the descendants
RECURSIVE queryPlane(_)
queryPlane(els) ==
    \E i \in 1..Len(els) :
        \/ els[i].tag = "geom" /\ els[i].type = "plane"
        \/ queryPlane(els[i].kids)

\* an addGroundPlane that looks for no existing plane
addGroundPlaneAlways(doc) ==
    IF doc = <<>> THEN doc ELSE [doc EXCEPT ![1] = <<groundGeom>> \o @]

\* addGroundPlane, lines 152-192; doc.querySelector('worldbody') is the first
\* worldbody of the document
addGroundPlane(doc) ==
    IF doc = <<>> THEN doc
    ELSE IF queryPlane(doc[1]) THEN doc
    ELSE [doc EXCEPT ![1] = <<groundGeom>> \o @]

RECURSIVE geomCount(_)
\* the geoms the compiler finds under a sequence of elements
geomCount(els) ==
    IF els = <<>> THEN 0
    ELSE (IF Head(els).tag = "geom" THEN 1 ELSE geomCount(Head(els).kids))
         + geomCount(Tail(els))

RECURSIVE planeCount(_)
\* the geoms of type plane under a sequence of elements
planeCount(els) ==
    IF els = <<>> THEN 0
    ELSE (IF Head(els).tag = "geom"
          THEN (IF Head(els).type = "plane" THEN 1 ELSE 0)
          ELSE planeCount(Head(els).kids))
         + planeCount(Tail(els))

RECURSIVE docGeomCount(_)
docGeomCount(doc) ==
    IF doc = <<>> THEN 0 ELSE geomCount(Head(doc)) + docGeomCount(Tail(doc))

RECURSIVE docSize(_)
docSize(doc) == IF doc = <<>> THEN 0 ELSE Len(Head(doc)) + docSize(Tail(doc))

\* the document under construction gets another worldbody / another child
\* of its last worldbody
AddWorldbody ==
    /\ call.fn \in {"none", "document"}
    /\ Len(call.arg) < MaxWorldbodies
    /\ call' = [fn |-> "document", arg |-> Append(call.arg, <<>>), ret |-> <<>>]
    /\ UNCHANGED prog

AddElem(el) ==
    /\ call.fn = "document"
    /\ docSize(call.arg) < MaxElems
    /\ call' = [call EXCEPT !.arg[Len(call.arg)] = Append(@, el)]
    /\ UNCHANGED prog

\* loadScene, line 90
CallAddGroundPlane ==
    /\ call.fn \in {"none", "document"}
    /\ call' = [fn |-> "addGroundPlane", arg |-> call.arg,
                ret |-> addGroundPlane(call.arg)]
    /\ UNCHANGED prog

\* addGroundPlane applied to its own output
CallAddGroundPlaneAgain ==
    /\ call.fn = "addGroundPlane"
    /\ call' = [fn |-> "addGroundPlaneAgain", arg |-> call.ret,
                ret |-> addGroundPlane(call.ret)]
    /\ UNCHANGED prog

NextGround ==
    \/ AddWorldbody
    \/ \E el \in Elems : AddElem(el)
    \/ CallAddGroundPlane
    \/ CallAddGroundPlaneAgain

SpecGround == Init /\ [][NextGround]_vars

\* C15: addGroundPlane adds exactly one plane geom, as the first child of
\* the worldbody, when the document has a worldbody declaring no plane geom
\* (the geometry count becomes the source count + 1); with a plane geom
\* already declared, or no worldbody, it returns the document unchanged; and
\* applied to its own output it adds nothing.
C15_GroundPlaneOnce ==
    /\ call.fn = "addGroundPlane" =>
          IF call.arg = <<>> \/ planeCount(call.arg[1]) > 0
          THEN call.ret = call.arg
          ELSE /\ Head(call.ret[1]) = groundGeom
               /\ Tail(call.ret[1]) = call.arg[1]
               /\ Tail(call.ret) = Tail(call.arg)
               /\ planeCount(call.ret[1]) = 1
               /\ docGeomCount(call.ret) = docGeomCount(call.arg) + 1
    /\ call.fn = "addGroundPlaneAgain" => call.ret = call.arg

\* a worldbody with a box geom and a body got its plane, and the second
\* application found it
C15_Witness ==
    /\ call.fn = "addGroundPlaneAgain"
    /\ call.arg # <<>>
    /\ call.arg[1] = <<groundGeom, Geom("box", ""), Body(<<Geom("box", "")>>)>>
    /\ docGeomCount(call.ret) = 3

(*************************** asset resolution ******************************)
\* A path string is its prefix ("", "/" or "package://") and its segments
\* between slashes; two strings are equal exactly when these are.  A bundle
\* (fileMap) is the sequence of its keys in insertion order; an entry is
\* identified by its key.
MaxEntries == 2
\* the segment "package:" is what normalizePath leaves of "package://"
lowerCase ==
    [n \in {"meshes", "other", "robot", "foo", "package:", "bar.stl", "Bar.STL",
            "bar.obj", "bar", "Bar"} |->
        IF n = "Bar.STL" THEN "bar.stl" ELSE IF n = "Bar" THEN "bar" ELSE n]
\* name.split('.').slice(0, -1).join('.') || name
stemOf ==
    [n \in DOMAIN lowerCase |->
        IF n \in {"bar.stl", "bar.obj"} THEN "bar"
        ELSE IF n = "Bar.STL" THEN "Bar" ELSE n]
hasDot(n) == n \in {"bar.stl", "Bar.STL", "bar.obj"}
\* name + ext for the extensions of loadMeshFile, line 183, in its order;
\* "bar.dae", "bar.gltf" and "bar.glb" are keys of no bundle here
commonExts == <<".stl", ".obj", ".dae", ".gltf", ".glb">>
withExt(n, ext) ==
    IF n = "bar" /\ ext = ".stl" THEN "bar.stl"
    ELSE IF n = "bar" /\ ext = ".obj" THEN "bar.obj"
    ELSE "no such file"

Path(lead, segs) == [lead |-> lead, segs |-> segs]
NoFile == Path("", <<>>)
Last(q) == q[Len(q)]

\* the keys a bundle may hold and the references resolved against it
Keys ==
    {Path("", <<"meshes", "bar.stl">>), Path("", <<"other", "bar.stl">>),
     Path("", <<"robot", "meshes", "bar.stl">>), Path("", <<"bar.obj">>),
     Path("/", <<"meshes", "bar.stl">>), Path("", <<"bar.stl">>)}
Refs ==
    {Path("package://", <<"foo", "meshes", "bar.stl">>),
     Path("", <<"meshes", "bar.stl">>), Path("/", <<"meshes", "bar.stl">>),
     Path("", <<"meshes", "Bar.STL">>), Path("", <<"bar">>)}
\* directories of the referring document, as "dir/" prefixes
Dirs == {<<>>, <<"robot">>}

has(fileMap, key) == \E i \in 1..Len(fileMap) : fileMap[i] = key

\* normalizePath, main.ts lines 125-128 (no backslashes or doubled slashes
\* occur inside the segments here)
normalizePath(path) ==
    IF path.lead = "package://" THEN Path("", <<"package:">> \o path.segs)
    ELSE Path("", path.segs)

\* the first path of a list that is a key of the bundle (lines 152-158)
RECURSIVE firstKey(_, _)
firstKey(tryPaths, fileMap) ==
    IF tryPaths = <<>> THEN NoFile
    ELSE IF has(fileMap, Head(tryPaths)) THEN Head(tryPaths)
    ELSE firstKey(Tail(tryPaths), fileMap)

\* "for (const [key, value] of fileMap.entries()) if (test) ... break": the
\* first key, in insertion order, among the positions that pass the test
firstOf(fileMap, hits) ==
    IF hits = {} THEN NoFile
    ELSE fileMap[CHOOSE i \in hits : \A j \in hits : i <= j]

\* loadMeshFile, lines 145-151: the exact candidates, in the order tried
tryPaths(meshPath) ==
    LET normalizedPath == normalizePath(meshPath)
        fileNameOnly == Last(normalizedPath.segs)
        baseName == stemOf[fileNameOnly]
    IN <<meshPath, normalizedPath, Path("/", normalizedPath.segs),
         Path("", <<fileNameOnly>>), Path("", <<baseName>>)>>

\* loadMeshFile, main.ts lines 136-193: the key it settles on (NoFile: null)
loadMeshFile(meshPath, fileMap) ==
    LET normalizedPath == normalizePath(meshPath)
        fileNameOnly == Last(normalizedPath.segs)
        baseName == stemOf[fileNameOnly]
        exact == firstKey(tryPaths(meshPath), fileMap)
        searchNameLower == lowerCase[fileNameOnly]
        baseNameLower == lowerCase[baseName]
        Fuzzy(key) ==
            LET keyNormalized == normalizePath(key)
                keyFileName == lowerCase[Last(keyNormalized.segs)]
                keyBaseName == stemOf[keyFileName]
            IN  \/ keyFileName = searchNameLower
                \/ keyBaseName = baseNameLower
        fuzzy == firstOf(fileMap, {i \in 1..Len(fileMap) : Fuzzy(fileMap[i])})
        noDot == \A i \in 1..Len(normalizedPath.segs) : ~hasDot(normalizedPath.segs[i])
        WithExt(k) ==
            Path("", SubSeq(normalizedPath.segs, 1, Len(normalizedPath.segs) - 1)
                      \o <<withExt(fileNameOnly, commonExts[k])>>)
        byExt == IF \E k \in 1..Len(commonExts) : has(fileMap, WithExt(k))
                 THEN WithExt(CHOOSE k \in 1..Len(commonExts) :
                          /\ has(fileMap, WithExt(k))
                          /\ \A j \in 1..(k - 1) : ~has(fileMap, WithExt(j)))
                 ELSE NoFile
    IN  IF exact # NoFile THEN exact
        ELSE IF fuzzy # NoFile THEN fuzzy
        ELSE IF noDot THEN byExt
        ELSE NoFile

\* urdfDir + meshPath (XacroAdapter.js line 451): with a directory in front, a
\* path that starts with a slash gives a string with "//", which is no key
joinDir(urdfDir, meshPath) ==
    IF urdfDir = <<>> THEN meshPath
    ELSE IF meshPath.lead = "" THEN Path("", urdfDir \o meshPath.segs)
    ELSE Path("", <<"no such file">>)

\* findFileInMapByPath, XacroAdapter.js lines 432-471
findFileInMapByPath(path, fileMap, urdfDir) ==
    LET meshPath == IF path.lead = "package://"
                    THEN IF Len(path.segs) > 1 THEN Path("", Tail(path.segs))
                         ELSE Path("", path.segs)
                    ELSE path
        fullPath == joinDir(urdfDir, meshPath)
        targetFileName == Last(meshPath.segs)
        SameName(key) == Last(key.segs) = targetFileName
    IN  IF has(fileMap, fullPath) THEN fullPath
        ELSE IF has(fileMap, meshPath) THEN meshPath
        ELSE firstOf(fileMap, {i \in 1..Len(fileMap) : SameName(fileMap[i])})

\* the bundle under construction gets another entry
AddEntry(key) ==
    /\ call.fn \in {"none", "bundle"}
    /\ Len(call.arg) < MaxEntries
    /\ ~has(call.arg, key)
    /\ call' = [fn |-> "bundle", arg |-> Append(call.arg, key), ret |-> <<>>]
    /\ UNCHANGED prog

CallLoadMeshFile(ref) ==
    /\ call.fn = "bundle"
    /\ call' = [fn |-> "loadMeshFile",
                arg |-> [ref |-> ref, fileMap |-> call.arg, dir |-> <<>>],
                ret |-> loadMeshFile(ref, call.arg)]
    /\ UNCHANGED prog

CallFindFileInMapByPath(ref, dir) ==
    /\ call.fn = "bundle"
    /\ call' = [fn |-> "findFileInMapByPath",
                arg |-> [ref |-> ref, fileMap |-> call.arg, dir |-> dir],
                ret |-> findFileInMapByPath(ref, call.arg, dir)]
    /\ UNCHANGED prog

NextAssets ==
    \/ \E key \in Keys : AddEntry(key)
    \/ \E ref \in Refs : CallLoadMeshFile(ref)
    \/ \E ref \in Refs, dir \in Dirs : CallFindFileInMapByPath(ref, dir)

SpecAssets == Init /\ [][NextAssets]_vars

Resolved == call.fn \in {"loadMeshFile", "findFileInMapByPath"}

\* C17: resolving "package://P/R" against a bundle that holds key R and no
\* key P/R returns the entry under R, whatever else the bundle holds, in
\* loadMeshFile and in findFileInMapByPath.
C17_PackagePrefixStripped ==
    (Resolved /\ call.arg.ref.lead = "package://") =>
        LET R == Path("", Tail(call.arg.ref.segs))
            PR == Path("", call.arg.ref.segs)
        IN  (has(call.arg.fileMap, R) /\ ~has(call.arg.fileMap, PR))
                => call.ret = R

\* the candidate order C18 describes, for a reference, the directory of the
\* referring document and a bundle
ClaimedResolve(ref, dir, fileMap) ==
    LET rel == IF ref.lead = "package://" THEN Path("", Tail(ref.segs)) ELSE ref
        contextRelative == joinDir(dir, rel)
        bundleRoot == Path("", rel.segs)
        name == Last(rel.segs)
        byName == firstOf(fileMap,
                      {i \in 1..Len(fileMap) :
                          lowerCase[Last(fileMap[i].segs)] = lowerCase[name]})
        WithExt(k) ==
            Path("", SubSeq(rel.segs, 1, Len(rel.segs) - 1)
                      \o <<withExt(name, commonExts[k])>>)
        exts == {k \in 1..Len(commonExts) : has(fileMap, WithExt(k))}
    IN  IF has(fileMap, contextRelative) THEN contextRelative
        ELSE IF has(fileMap, bundleRoot) THEN bundleRoot
        ELSE IF has(fileMap, ref) THEN ref
        ELSE IF byName # NoFile THEN byName
        ELSE IF ~hasDot(name) /\ exts # {}
        THEN WithExt(CHOOSE k \in exts : \A j \in exts : k <= j)
        ELSE NoFile

\* C18: asset resolution returns the first hit of a fixed candidate order:
\* the context-relative path, the bundle-root path, the raw reference, the
\* case-insensitive basename scan in key order, and for a reference without
\* extension the reference with each mesh extension appended.
C18_FirstMatchOrder ==
    Resolved =>
        call.ret = ClaimedResolve(call.arg.ref, call.arg.dir, call.arg.fileMap)

\* the call found none of its exact candidates in the bundle and returned
\* an entry all the same: the entry came from the scan of lines 161-179
FromScan ==
    /\ call.fn = "loadMeshFile"
    /\ firstKey(tryPaths(call.arg.ref), call.arg.fileMap) = NoFile
    /\ call.ret # NoFile

\* the file name of a path, extension included, in lower case
nameLower(path) == lowerCase[Last(normalizePath(path).segs)]

\* C33: when loadMeshFile falls back to the scan of the bundle, the entry
\* it returns has a key whose file name, extension included, equals the
\* reference's file name ignoring case; an entry whose file name differs,
\* for example only in its extension, is never returned.
C33_ScanMatchesFileName ==
    FromScan => nameLower(call.ret) = nameLower(call.arg.ref)

(*************************** xacro includes ********************************)
\* keys of the uploaded bundle, include paths as written in a document (also
\* with a leading "/" or "./"), and names of the including document
XacroKeys ==
    {Path("", <<"urdf", "common.xacro">>), Path("", <<"zzz", "common.xacro">>),
     Path("", <<"robot", "urdf", "common.xacro">>), Path("", <<"common.xacro">>),
     Path("", <<"robot", "arm.xacro">>)}
IncludePaths ==
    {Path("", <<"urdf", "common.xacro">>), Path("/", <<"urdf", "common.xacro">>),
     Path("./", <<"common.xacro">>), Path("", <<"pkg", "urdf", "common.xacro">>),
     Path("", <<"missing.xacro">>)}
XacroFiles == {<<"robot.xacro">>, <<"robot", "robot.xacro">>}

\* parse, lines 46-49: the directory of the xacro file, "" when it has none
workingPathOf(fileName) == SubSeq(fileName, 1, Len(fileName) - 1)

\* workingPath + string: a string starting with "/" or "./" behind a
\* directory is the key of no file
prefixed(workingPath, path) ==
    IF workingPath = <<>> THEN path
    ELSE IF path.lead = "" THEN Path("", workingPath \o path.segs)
    ELSE Path("", <<"no such file">>)

\* a loader that gives up after the exact paths
loadFileFromMapExact(path, fileMap, workingPath) ==
    LET hit == firstKey(<<Path("", path.segs),
                          prefixed(workingPath, Path("", path.segs))>>, fileMap)
    IN  [key |-> hit, threw |-> hit = NoFile]

\* loadFileFromMap, lines 304-345: the key whose text it returns, or the
\* file-not-found error it throws
loadFileFromMap(path, fileMap, workingPath) ==
    LET cleanPath == Path("", path.segs)
        possiblePaths ==
            <<cleanPath,
              prefixed(workingPath, cleanPath),
              path,
              prefixed(workingPath,
                       IF path.lead = "/" THEN Path("", path.segs) ELSE path),
              IF Len(cleanPath.segs) > 1 THEN Path("", Tail(cleanPath.segs))
              ELSE cleanPath>>
        exact == firstKey(possiblePaths, fileMap)
        fileName == Last(cleanPath.segs)
        byName == firstOf(fileMap,
                      {i \in 1..Len(fileMap) : Last(fileMap[i].segs) = fileName})
    IN  IF exact # NoFile THEN [key |-> exact, threw |-> FALSE]
        ELSE IF byName # NoFile THEN [key |-> byName, threw |-> FALSE]
        ELSE [key |-> NoFile, threw |-> TRUE]

\* parse, lines 69-77 and 291-294, for a document with one include: the
\* expander asks getFileContents for the include; an error it throws is
\* rethrown as "Xacro parsing failed" and no model is returned
parseInclude(path, fileMap, fileName) ==
    LET r == loadFileFromMap(path, fileMap, workingPathOf(fileName)) IN
    IF r.threw THEN [status |-> "rejected", model |-> FALSE, include |-> NoFile]
    ELSE [status |-> "resolved", model |-> TRUE, include |-> r.key]

CallParseInclude(path, fileName) ==
    /\ call.fn = "bundle"
    /\ call' = [fn |-> "parseInclude",
                arg |-> [path |-> path, fileMap |-> call.arg, fileName |-> fileName],
                ret |-> parseInclude(path, call.arg, fileName)]
    /\ UNCHANGED prog

NextInclude ==
    \/ \E key \in XacroKeys : AddEntry(key)
    \/ \E path \in IncludePaths, fileName \in XacroFiles :
          CallParseInclude(path, fileName)

SpecInclude == Init /\ [][NextInclude]_vars

\* the first key of the bundle with the file name of a path
ByFileName(fileMap, path) ==
    firstOf(fileMap, {i \in 1..Len(fileMap) : Last(fileMap[i].segs) = Last(path.segs)})

MaxArgs == 2
ArgNames == {"DEBUG", "SELF_COLLIDE", "prefix"}
ArgDefaults == {"", "true", "left_"}

\* an argument declaration of a document: <xacro:arg name=".." default=".."/>
\* written name first ("name-default"), default first ("default-name"), or
\* without a default ("name")
ArgDecls ==
    [name : ArgNames, attrs : {"name-default", "default-name"}, default : ArgDefaults]
        \cup [name : ArgNames, attrs : {"name"}, default : {""}]

declares(doc, name) == \E i \in 1..Len(doc) : doc[i].name = name

\* args[argName] = defaultValue
setArg(args, argName, defaultValue) ==
    [n \in DOMAIN args \cup {argName} |->
        IF n = argName THEN defaultValue ELSE args[n]]

\* argPattern, line 601: the pattern wants name= right behind the tag name,
\* and captures a default= that follows the name directly
matches(decl) == decl.attrs \in {"name-default", "name"}
captured(decl) == IF decl.attrs = "name-default" THEN decl.default ELSE ""

\* extractXacroArguments, lines 596-611; match[2] || 'false' takes an empty
\* or missing capture to 'false'
RECURSIVE extractLoop(_, _, _)
extractLoop(doc, i, args) ==
    IF i > Len(doc) THEN args
    ELSE IF ~matches(doc[i]) THEN extractLoop(doc, i + 1, args)
    ELSE LET match2 == captured(doc[i])
             defaultValue == IF match2 = "" THEN "false" ELSE match2
         IN  extractLoop(doc, i + 1, setArg(args, doc[i].name, defaultValue))

extractXacroArguments(xacroContent) == extractLoop(xacroContent, 1, <<>>)

\* parse, lines 57-67: the map given to parser.arguments
seed(args, name) == IF name \in DOMAIN args THEN args ELSE setArg(args, name, "false")
xacroArguments(xacroContent) ==
    seed(seed(extractXacroArguments(xacroContent), "DEBUG"), "SELF_COLLIDE")

\* documents declare an argument once
AddArg(decl) ==
    /\ call.fn \in {"none", "document"}
    /\ Len(call.arg) < MaxArgs
    /\ ~declares(call.arg, decl.name)
    /\ call' = [fn |-> "document", arg |-> Append(call.arg, decl), ret |-> <<>>]
    /\ UNCHANGED prog

CallXacroArguments ==
    /\ call.fn = "document"
    /\ call' = [fn |-> "xacroArguments", arg |-> call.arg,
                ret |-> xacroArguments(call.arg)]
    /\ UNCHANGED prog

NextArgs ==
    \/ \E decl \in ArgDecls : AddArg(decl)
    \/ CallXacroArguments

SpecArgs == Init /\ [][NextArgs]_vars

HasDefault(decl) == decl.attrs # "name"

\* C20: the argument map holds, for every argument the document declares
\* with a default, that declared default; it holds DEBUG and SELF_COLLIDE,
\* with 'false' when the document does not declare them, and a value declared
\* for them is not replaced by the pre-seeded 'false'.
C20_DeclaredDefaultsKept ==
    call.fn = "xacroArguments" =>
        /\ \A i \in 1..Len(call.arg) :
              HasDefault(call.arg[i]) =>
                  /\ call.arg[i].name \in DOMAIN call.ret
                  /\ call.ret[call.arg[i].name] = call.arg[i].default
        /\ \A n \in {"DEBUG", "SELF_COLLIDE"} :
              /\ n \in DOMAIN call.ret
              /\ ~declares(call.arg, n) => call.ret[n] = "false"

\* the part of C20 the code keeps: for declarations written name first with
\* a non-empty default
DeclaredNonEmptyKept ==
    call.fn = "xacroArguments" =>
        /\ \A i \in 1..Len(call.arg) :
              (call.arg[i].attrs = "name-default" /\ call.arg[i].default # "") =>
                  /\ call.arg[i].name \in DOMAIN call.ret
                  /\ call.ret[call.arg[i].name] = call.arg[i].default
        /\ \A n \in {"DEBUG", "SELF_COLLIDE"} :
              /\ n \in DOMAIN call.ret
              /\ ~declares(call.arg, n) => call.ret[n] = "false"

(*************************** xacro cleanup *********************************)
MaxNodes == 3

\* DOM nodes: an element with its tag and child nodes, a comment, a text node
\* with its value
El(name, kids) == [type |-> "element", name |-> name, kids |-> kids]
Comment == [type |-> "comment", name |-> "generated", kids |-> <<>>]
Text(value) == [type |-> "text", name |-> value, kids |-> <<>>]
Blank == Text("  ")

\* String.prototype.trim() === '' on the text values used
isBlank == [v \in {"  ", "1 0 0"} |-> v = "  "]

Box == El("box", <<>>)
EmptyGeometry == El("geometry", <<>>)

\* children of the robot element in an expanded document
Pieces ==
    {El("link", <<El("visual", <<El("geometry", <<Box>>)>>)>>),
     El("link", <<Blank, El("visual", <<EmptyGeometry>>),
                  El("collision", <<El("geometry", <<Box>>)>>)>>),
     El("link", <<El("collision", <<El("geometry", <<Comment>>)>>)>>),
     El("link", <<El("visual", <<EmptyGeometry, EmptyGeometry>>)>>),
     El("joint", <<Comment, El("parent", <<>>), Blank, El("child", <<>>)>>),
     El("gazebo", <<El("plugin", <<El("gazebo", <<>>)>>), Text("1 0 0")>>),
     El("link", <<El("gazebo", <<El("link", <<>>)>>)>>),
     El("transmission", <<El("joint", <<>>)>>),
     Comment, Blank, Text("1 0 0")}

\* a document: the nodes before the root element and the robot element
Doc(prolog, kids) == [prolog |-> prolog, documentElement |-> El("robot", kids)]
EmptyDoc == Doc(<<>>, <<>>)

isElement(node, name) == node.type = "element" /\ node.name = name

\* querySelectorAll(tag).forEach(el => el.parentNode?.removeChild(el)),
\* lines 98-104: what is left of the subtree of node (the root is no match)
RECURSIVE removeAll(_, _)
removeAll(node, tag) ==
    LET kept == SelectSeq(node.kids, LAMBDA k : ~isElement(k, tag)) IN
    [node EXCEPT !.kids = [i \in 1..Len(kept) |-> removeAll(kept[i], tag)]]

\* geom.children.length === 0
hasNoChildren(geom) == \A i \in 1..Len(geom.kids) : geom.kids[i].type # "element"

\* the test of lines 359-366 on the parent of a geometry: it is a visual or a
\* collision and one of its geometry children has no child element
emptyGeometryParent(node) ==
    /\ isElement(node, "visual") \/ isElement(node, "collision")
    /\ \E i \in 1..Len(node.kids) :
          isElement(node.kids[i], "geometry") /\ hasNoChildren(node.kids[i])

\* removeEmptyGeometry, lines 353-373: every such parent is removed from its
\* own parent; one already detached has no parent and is skipped
RECURSIVE removeEmptyGeometry(_)
removeEmptyGeometry(node) ==
    LET kept == SelectSeq(node.kids, LAMBDA k : ~emptyGeometryParent(k)) IN
    [node EXCEPT !.kids = [i \in 1..Len(kept) |-> removeEmptyGeometry(kept[i])]]

\* cleanXMLNodes, lines 379-408
RECURSIVE cleanXMLNodes(_)
cleanXMLNodes(element) ==
    LET nodesToRemove(k) ==
            \/ k.type = "comment"
            \/ k.type = "text" /\ isBlank[k.name]
        kept == SelectSeq(element.kids, LAMBDA k : ~nodesToRemove(k))
    IN  [element EXCEPT !.kids =
            [i \in 1..Len(kept) |->
                IF kept[i].type = "element" THEN cleanXMLNodes(kept[i])
                ELSE kept[i]]]

\* parse, lines 98-114: the cleanup of the re-parsed document; only
\* cleanXMLNodes(cleanUrdfXML.documentElement) is about comments
cleanup(doc) ==
    [doc EXCEPT !.documentElement =
        cleanXMLNodes(removeEmptyGeometry(
            removeAll(removeAll(doc.documentElement, "gazebo"), "transmission")))]

AddNode(piece) ==
    /\ call.fn \in {"none", "xml"}
    /\ LET doc == IF call.fn = "none" THEN EmptyDoc ELSE call.arg IN
       /\ Len(doc.documentElement.kids) < MaxNodes
       /\ call' = [fn |-> "xml",
                   arg |-> Doc(doc.prolog, Append(doc.documentElement.kids, piece)),
                   ret |-> <<>>]
    /\ UNCHANGED prog

\* a comment in front of the root element
AddProlog ==
    /\ call.fn \in {"none", "xml"}
    /\ LET doc == IF call.fn = "none" THEN EmptyDoc ELSE call.arg IN
       /\ doc.prolog = <<>>
       /\ call' = [fn |-> "xml", arg |-> [doc EXCEPT !.prolog = <<Comment>>],
                   ret |-> <<>>]
    /\ UNCHANGED prog

CallCleanup ==
    /\ call.fn = "xml"
    /\ call' = [fn |-> "cleanup", arg |-> call.arg, ret |-> cleanup(call.arg)]
    /\ UNCHANGED prog

NextCleanup ==
    \/ \E piece \in Pieces : AddNode(piece)
    \/ AddProlog
    \/ CallCleanup

SpecCleanup == Init /\ [][NextCleanup]_vars

RECURSIVE Flatten(_)
Flatten(seqs) == IF seqs = <<>> THEN <<>> ELSE Head(seqs) \o Flatten(Tail(seqs))

\* every node of a subtree, in document order
RECURSIVE Nodes(_)
Nodes(node) == <<node>> \o Flatten([i \in 1..Len(node.kids) |-> Nodes(node.kids[i])])

\* the tags of the elements of a subtree, in document order
Tags(node) ==
    LET els == SelectSeq(Nodes(node), LAMBDA n : n.type = "element")
    IN  [i \in 1..Len(els) |-> els[i].name]

Stripped(node) ==
    \/ isElement(node, "gazebo") \/ isElement(node, "transmission")
    \/ emptyGeometryParent(node)

\* the tags of the elements outside every stripped subtree, in document order
RECURSIVE KeptTags(_)
KeptTags(node) ==
    IF node.type # "element" \/ Stripped(node) THEN <<>>
    ELSE <<node.name>> \o Flatten([i \in 1..Len(node.kids) |-> KeptTags(node.kids[i])])

NoStrippedElement(root) ==
    \A i \in 1..Len(Nodes(root)) : ~Stripped(Nodes(root)[i])

NoCommentOrBlank(nodes) ==
    \A i \in 1..Len(nodes) :
        /\ nodes[i].type # "comment"
        /\ nodes[i].type = "text" => ~isBlank[nodes[i].name]

DocNodes(doc) == doc.prolog \o Nodes(doc.documentElement)

\* C21: the cleaned document has no gazebo or transmission element, no
\* visual or collision with a childless geometry child, and no comment or
\* whitespace-only text node; every other element outside a removed subtree
\* is kept in its order.
C21_CleanedDocument ==
    call.fn = "cleanup" =>
        /\ NoStrippedElement(call.ret.documentElement)
        /\ NoCommentOrBlank(DocNodes(call.ret))
        /\ Tags(call.ret.documentElement) = KeptTags(call.arg.documentElement)

\* the part of C21 the code keeps: the same with comments and blank text
\* looked for below the root element only
CleanedBelowRoot ==
    call.fn = "cleanup" =>
        /\ NoStrippedElement(call.ret.documentElement)
        /\ NoCommentOrBlank(Nodes(call.ret.documentElement))
        /\ Tags(call.ret.documentElement) = KeptTags(call.arg.documentElement)

(*************************** xacro parse outcomes **************************)
\* the promise of XacroAdapter.parse: where the call is, how it settled, what
\* it settled with; events are the failures that happened on the way
Pending(path, mesh, fileMap, fileName) ==
    [arg |-> [path |-> path, mesh |-> mesh, fileMap |-> fileMap, fileName |-> fileName],
     pc |-> "expand", settled |-> "pending", model |-> "none", error |-> "none",
     events |-> {}, placeholder |-> FALSE]

\* the catch of lines 291-294 and the reject calls of lines 283 and 288
rejectWith(p, error) ==
    [p EXCEPT !.pc = "done", !.settled = "rejected", !.error = error]

\* a re-parse that never looks for the parsererror element
reparseUnchecked(p, wellFormed) == [p EXCEPT !.pc = "load"]

\* lines 86-114: the expansion is serialised and parsed again; a parsererror
\* element throws, else the document is cleaned
reparse(p, wellFormed) ==
    IF ~wellFormed THEN rejectWith(p, "Xacro parsing failed")
    ELSE [p EXCEPT !.pc = "load"]

\* lines 69-77: the expander asks getFileContents for the include
expand(p) ==
    IF loadFileFromMap(p.arg.path, p.arg.fileMap, workingPathOf(p.arg.fileName)).threw
    THEN rejectWith(p, "Xacro parsing failed")
    ELSE [p EXCEPT !.pc = "reparse"]

\* loadMeshCb, lines 246-268: a mesh that is not in the bundle goes to the
\* loader's own mesh loader, which puts nothing in its place and goes on
loadMeshCb(p) ==
    [p EXCEPT !.placeholder =
        findFileInMapByPath(p.arg.mesh, p.arg.fileMap,
                            workingPathOf(p.arg.fileName)) = NoFile]

\* loader.load, lines 274-289: the error callback rejects, the load callback
\* goes on to the conversion
load(p, loaderError) ==
    IF loaderError THEN rejectWith(loadMeshCb(p), "URDF loading failed")
    ELSE [loadMeshCb(p) EXCEPT !.pc = "convert"]

\* lines 278-284: URDFAdapter.convert returns the model or throws
convert(p, convertError) ==
    IF convertError THEN rejectWith(p, "URDF conversion failed")
    ELSE [p EXCEPT !.pc = "done", !.settled = "resolved", !.model = "full"]

\* the record of a failure the libraries or the conversion produced
happened(p, failed, event) ==
    [p EXCEPT !.events = IF failed THEN @ \cup {event} ELSE @]

StartParse(path, mesh, fileName) ==
    /\ call.fn = "bundle"
    /\ call' = [fn |-> "parse", arg |-> call.arg,
                ret |-> Pending(path, mesh, call.arg, fileName)]
    /\ UNCHANGED prog

Expand ==
    /\ call.fn = "parse" /\ call.ret.pc = "expand"
    /\ call' = [call EXCEPT !.ret = expand(@)]
    /\ UNCHANGED prog

Reparse(wellFormed) ==
    /\ call.fn = "parse" /\ call.ret.pc = "reparse"
    /\ call' = [call EXCEPT !.ret = happened(reparse(@, wellFormed),
                                              ~wellFormed, "malformed")]
    /\ UNCHANGED prog

Load(loaderError) ==
    /\ call.fn = "parse" /\ call.ret.pc = "load"
    /\ call' = [call EXCEPT !.ret = happened(load(@, loaderError),
                                              loaderError, "loader")]
    /\ UNCHANGED prog

Convert(convertError) ==
    /\ call.fn = "parse" /\ call.ret.pc = "convert"
    /\ call' = [call EXCEPT !.ret = happened(convert(@, convertError),
                                              convertError, "conversion")]
    /\ UNCHANGED prog

ParseIncludes == {Path("", <<"urdf", "common.xacro">>), Path("", <<"missing.xacro">>)}
ParseMeshes == {Path("package://", <<"foo", "meshes", "bar.stl">>),
                Path("", <<"meshes", "bar.stl">>)}

NextParse ==
    \/ \E key \in XacroKeys \cup Keys : AddEntry(key)
    \/ \E path \in ParseIncludes, mesh \in ParseMeshes, fileName \in XacroFiles :
          StartParse(path, mesh, fileName)
    \/ Expand
    \/ \E wellFormed \in BOOLEAN : Reparse(wellFormed)
    \/ \E loaderError \in BOOLEAN : Load(loaderError)
    \/ \E convertError \in BOOLEAN : Convert(convertError)

SpecParse == Init /\ [][NextParse]_vars

\* C22: parse resolves with the full model or rejects with an Error, never
\* with a null or partial model; malformed expansion output, an unresolvable
\* include, a loader error and a conversion error each reject, a mesh that is
\* not in the bundle does not.
C22_ResolveOrReject ==
    (call.fn = "parse" /\ call.ret.pc = "done") =>
        /\ call.ret.settled \in {"resolved", "rejected"}
        /\ call.ret.settled = "resolved" <=> call.ret.model = "full"
        /\ call.ret.settled = "rejected" <=> call.ret.error # "none"
        /\ call.ret.settled = "rejected" <=>
              \/ loadFileFromMap(call.ret.arg.path, call.arg,
                                 workingPathOf(call.ret.arg.fileName)).threw
              \/ call.ret.events # {}

\* a parse that resolved although a mesh of the document is not in the bundle
C22_Witness ==
    /\ call.fn = "parse"
    /\ call.ret.settled = "resolved"
    /\ call.ret.placeholder
    /\ call.ret.arg.fileMap # <<>>

(*************************** GeometryType.clone ****************************)
\* values of fields and slots: null, a number, or a reference to an object or
\* array of the heap; the heap is the sequence of objects and arrays
\* allocated so far, each a sequence of slot values
NullValue == [t |-> "null", v |-> 0]
Num(n) == [t |-> "num", v |-> n]
Ref(a) == [t |-> "ref", v |-> a]

GeometryFields == {"size", "meshScale", "fromto", "inlineScale"}
Shapes == {"null", "flat", "nested"}

\* new object or array
alloc(heap, slots) == Append(heap, slots)

\* the value of a field of the given shape, allocated at the end of the heap:
\* flat is {x: 1, y: 2} or [1, 2], nested is {half: [1, 2], z: 3}
shaped(heap, shape) ==
    IF shape = "null" THEN [heap |-> heap, value |-> NullValue]
    ELSE IF shape = "flat"
    THEN [heap |-> alloc(heap, <<Num(1), Num(2)>>), value |-> Ref(Len(heap) + 1)]
    ELSE [heap |-> alloc(alloc(heap, <<Num(1), Num(2)>>),
                         <<Ref(Len(heap) + 1), Num(3)>>),
          value |-> Ref(Len(heap) + 2)]

\* new GeometryType(type) with its four object-valued fields set
newGeometry(size, meshScale, fromto, inlineScale) ==
    LET a == shaped(<<>>, size)
        b == shaped(a.heap, meshScale)
        c == shaped(b.heap, fromto)
        d == shaped(c.heap, inlineScale)
    IN  [heap |-> d.heap,
         g |-> [size |-> a.value, meshScale |-> b.value,
                fromto |-> c.value, inlineScale |-> d.value]]

\* this.f ? { ...this.f } : null and this.f ? [...this.f] : null: a new object
\* with the same slot values
spread(heap, value) ==
    IF value.t = "null" THEN [heap |-> heap, value |-> NullValue]
    ELSE [heap |-> alloc(heap, heap[value.v]), value |-> Ref(Len(heap) + 1)]

\* GeometryType.clone, lines 106-115
clone(heap, this) ==
    LET size == spread(heap, this.size)
        meshScale == spread(size.heap, this.meshScale)
        inlineScale == spread(meshScale.heap, this.inlineScale)
    IN  [heap |-> inlineScale.heap,
         cloned |-> [size |-> size.value, meshScale |-> meshScale.value,
                     fromto |-> this.fromto, inlineScale |-> inlineScale.value]]

\* what a program can read through a value: null, a number, or the slots
RECURSIVE read(_, _)
read(heap, value) ==
    IF value.t # "ref" THEN <<value.t, value.v>>
    ELSE [i \in 1..Len(heap[value.v]) |-> read(heap, heap[value.v][i])]

MutationKinds == {"replace", "change", "add", "deep"}

\* obj.f = {..} (replace), obj.f.x = 9 (change), obj.f.w = 9 (add),
\* obj.f.half[0] = 9 (deep)
canMutate(heap, obj, field, kind) ==
    \/ kind = "replace"
    \/ kind \in {"change", "add"} /\ obj[field].t = "ref"
    \/ kind = "deep" /\ obj[field].t = "ref" /\ heap[obj[field].v][1].t = "ref"

mutate(heap, obj, field, kind) ==
    IF kind = "replace"
    THEN [heap |-> alloc(heap, <<Num(9)>>),
          obj |-> [obj EXCEPT ![field] = Ref(Len(heap) + 1)]]
    ELSE LET a == obj[field].v IN
         [heap |-> IF kind = "change" THEN [heap EXCEPT ![a][1] = Num(9)]
                   ELSE IF kind = "add" THEN [heap EXCEPT ![a] = Append(@, Num(9))]
                   ELSE [heap EXCEPT ![heap[a][1].v][1] = Num(9)],
          obj |-> obj]

NewGeometry(size, meshScale, fromto, inlineScale) ==
    /\ call.fn = "none"
    /\ call' = [fn |-> "geometry", arg |-> newGeometry(size, meshScale, fromto, inlineScale),
                ret |-> <<>>]
    /\ UNCHANGED prog

CallClone ==
    /\ call.fn = "geometry"
    /\ call' = [fn |-> "clone", arg |-> call.arg, ret |-> clone(call.arg.heap, call.arg.g)]
    /\ UNCHANGED prog

\* a mutation through the original (via "g") or through the clone ("cloned");
\* arg keeps the heap and both objects as they were before it
Mutate(via, field, kind) ==
    /\ call.fn = "clone"
    /\ LET obj == IF via = "g" THEN call.arg.g ELSE call.ret.cloned
           m == mutate(call.ret.heap, obj, field, kind)
       IN  /\ canMutate(call.ret.heap, obj, field, kind)
           /\ call' = [fn |-> "mutate",
                       arg |-> [heap |-> call.ret.heap, g |-> call.arg.g,
                                cloned |-> call.ret.cloned,
                                via |-> via, field |-> field, kind |-> kind],
                       ret |-> [heap |-> m.heap,
                                g |-> IF via = "g" THEN m.obj ELSE call.arg.g,
                                cloned |-> IF via = "g" THEN call.ret.cloned ELSE m.obj]]
    /\ UNCHANGED prog

NextGeometry ==
    \/ \E size \in Shapes, meshScale, fromto, inlineScale \in {"null", "flat"} :
          NewGeometry(size, meshScale, fromto, inlineScale)
    \/ CallClone
    \/ \E via \in {"g", "cloned"}, field \in GeometryFields, kind \in MutationKinds :
          Mutate(via, field, kind)

SpecGeometry == Init /\ [][NextGeometry]_vars

\* the object the mutation was not made through reads the same in the field
Unobserved(field) ==
    LET other == IF call.arg.via = "g" THEN "cloned" ELSE "g"
    IN  read(call.ret.heap, call.ret[other][field])
            = read(call.arg.heap, call.arg[other][field])

\* C23: mutating the size of the clone, at any depth, leaves the size of the
\* original unchanged, and mutating the size of the original leaves the size
\* of the clone unchanged.
C23_SizeDeepCopied ==
    (call.fn = "mutate" /\ call.arg.field = "size") => Unobserved("size")

\* the part of C23 the code keeps: a mutation of the size record itself
SizeShallowCopied ==
    (call.fn = "mutate" /\ call.arg.field = "size" /\ call.arg.kind # "deep")
        => Unobserved("size")

\* C24: a geometry and its clone share no mutable sub-object: a mutation made
\* through one of them in size, meshScale, fromto or inlineScale is never
\* observable through the other.
C24_NoSharedSubObject ==
    call.fn = "mutate" => \A field \in GeometryFields : Unobserved(field)

\* the part of C24 the code keeps: the arrays meshScale and inlineScale
ScalesCopied ==
    (call.fn = "mutate" /\ call.arg.field \in {"meshScale", "inlineScale"})
        => \A field \in GeometryFields : Unobserved(field)

(*************************** UnifiedRobotModel *****************************)
LinkNames == {"base", "arm", "tool"}
JointNames == {"j1", "j2"}
\* parent and child of a joint: a name, or null as the constructor leaves them
JointEnds == {"null", "base", "arm"}

\* new UnifiedRobotModel(): links and joints are empty maps
EmptyModel == [links |-> {}, joints |-> <<>>]

\* addLink, lines 17-19: this.links.set(link.name, link)
addLink(model, link) == [model EXCEPT !.links = @ \cup {link}]

\* addJoint, lines 21-23: this.joints.set(joint.name, joint)
addJoint(model, joint) ==
    [model EXCEPT !.joints =
        [n \in DOMAIN @ \cup {joint.name} |->
            IF n = joint.name THEN joint ELSE @[n]]]

\* new Joint(name) with parent and child assigned
Joint(name, parent, child) == [name |-> name, parent |-> parent, child |-> child]

CurrentModel == IF call.fn = "model" THEN call.arg ELSE EmptyModel

AddLink(link) ==
    /\ call.fn \in {"none", "model"}
    /\ call' = [fn |-> "model", arg |-> addLink(CurrentModel, link), ret |-> "addLink"]
    /\ UNCHANGED prog

AddJoint(joint) ==
    /\ call.fn \in {"none", "model"}
    /\ call' = [fn |-> "model", arg |-> addJoint(CurrentModel, joint), ret |-> "addJoint"]
    /\ UNCHANGED prog

NextModel ==
    \/ \E link \in LinkNames : AddLink(link)
    \/ \E name \in JointNames, parent, child \in JointEnds :
          AddJoint(Joint(name, parent, child))

SpecModel == Init /\ [][NextModel]_vars

\* C25: after any sequence of addLink and addJoint calls every stored joint
\* has a parent and a child that are keys of links.
C25_JointEndsAreLinks ==
    call.fn = "model" =>
        \A n \in DOMAIN call.arg.joints :
            /\ call.arg.joints[n].parent \in call.arg.links
            /\ call.arg.joints[n].child \in call.arg.links

(*************************** loading snapshot ******************************)
MaxSnapshots == 3

\* an overlay created by createLoadingSnapshot, lines 287-326, after
\* setupSnapshotRemoval, lines 331-363: it is in the DOM, its safety timeout
\* is pending and its modelReady listener is registered
NewSnapshot ==
    [parentNode |-> TRUE, snapshotRemoving |-> FALSE, timeout |-> TRUE,
     fadeTimer |-> FALSE, listener |-> TRUE, fades |-> 0]

\* removeSnapshot, lines 333-345: starts the fade and its 300 ms timer
removeSnapshot(sn) ==
    IF sn.parentNode /\ ~sn.snapshotRemoving
    THEN [sn EXCEPT !.snapshotRemoving = TRUE, !.fadeTimer = TRUE, !.fades = @ + 1]
    ELSE sn

\* the callback of the 300 ms timer, lines 339-343
fadeDone(sn) == [sn EXCEPT !.fadeTimer = FALSE, !.parentNode = FALSE]

\* the safety timeout, lines 348-354
safetyTimeout(sn) ==
    IF sn.parentNode
    THEN [removeSnapshot(sn) EXCEPT !.timeout = FALSE, !.listener = FALSE]
    ELSE [sn EXCEPT !.timeout = FALSE]

\* onModelReady, lines 356-360
onModelReady(sn) ==
    [removeSnapshot([sn EXCEPT !.timeout = FALSE]) EXCEPT !.listener = FALSE]

\* document.getElementById('canvas-snapshot'): the first overlay in the DOM,
\* 0 when there is none
getSnapshotById(sns) ==
    IF \E k \in 1..Len(sns) : sns[k].parentNode
    THEN CHOOSE k \in 1..Len(sns) :
            sns[k].parentNode /\ \A j \in 1..(k - 1) : ~sns[j].parentNode
    ELSE 0

\* handleUSDWASMModel, lines 99-102
handleUSDWASMModel(sns) ==
    LET k == getSnapshotById(sns) IN
    IF k = 0 THEN sns ELSE [sns EXCEPT ![k].parentNode = FALSE]

Snapshots == IF call.fn = "snapshots" THEN call.arg ELSE <<>>

CreateLoadingSnapshot ==
    /\ call.fn \in {"none", "snapshots"}
    /\ Len(Snapshots) < MaxSnapshots
    /\ call' = [fn |-> "snapshots", arg |-> Append(Snapshots, NewSnapshot),
                ret |-> "createLoadingSnapshot"]
    /\ UNCHANGED prog

\* sceneManager emits modelReady: every registered listener runs
ModelReady ==
    /\ call.fn = "snapshots"
    /\ call' = [call EXCEPT
                  !.arg = [k \in 1..Len(@) |->
                              IF @[k].listener THEN onModelReady(@[k]) ELSE @[k]],
                  !.ret = "modelReady"]
    /\ UNCHANGED prog

SafetyTimeout(k) ==
    /\ call.fn = "snapshots"
    /\ k \in 1..Len(call.arg)
    /\ call.arg[k].timeout
    /\ call' = [call EXCEPT !.arg[k] = safetyTimeout(@), !.ret = "timeout"]
    /\ UNCHANGED prog

FadeDone(k) ==
    /\ call.fn = "snapshots"
    /\ k \in 1..Len(call.arg)
    /\ call.arg[k].fadeTimer
    /\ call' = [call EXCEPT !.arg[k] = fadeDone(@), !.ret = "fadeDone"]
    /\ UNCHANGED prog

HandleUSDWASMModel ==
    /\ call.fn = "snapshots"
    /\ call' = [call EXCEPT !.arg = handleUSDWASMModel(@), !.ret = "usd"]
    /\ UNCHANGED prog

NextSnapshot ==
    \/ CreateLoadingSnapshot
    \/ ModelReady
    \/ \E k \in 1..MaxSnapshots : SafetyTimeout(k)
    \/ \E k \in 1..MaxSnapshots : FadeDone(k)
    \/ HandleUSDWASMModel

SpecSnapshot == Init /\ [][NextSnapshot]_vars

\* timers that are pending fire
SpecSnapshotTimers ==
    /\ SpecSnapshot
    /\ \A k \in 1..MaxSnapshots :
          WF_vars(SafetyTimeout(k)) /\ WF_vars(FadeDone(k))

\* C26: an overlay's fade-out is started at most once, and once the overlay
\* has been removed from the DOM, on whichever path, its modelReady listener
\* is unregistered when its timers have run. (That it is eventually removed
\* is OverlayEventuallyRemoved.)
C26_OverlayTornDown ==
    call.fn = "snapshots" =>
        \A k \in 1..Len(call.arg) :
            /\ call.arg[k].fades <= 1
            /\ (~call.arg[k].parentNode /\ ~call.arg[k].timeout /\ ~call.arg[k].fadeTimer)
                  => ~call.arg[k].listener

\* the part of C26 the code keeps: the fade starts at most once, and an overlay
\* whose fade ran is out of the DOM with its listener unregistered
FadedOverlayTornDown ==
    call.fn = "snapshots" =>
        \A k \in 1..Len(call.arg) :
            /\ call.arg[k].fades <= 1
            /\ (call.arg[k].fades = 1 /\ ~call.arg[k].fadeTimer)
                  => (~call.arg[k].parentNode /\ ~call.arg[k].listener)

\* every overlay that is added is removed from the DOM in the end, with or
\* without a modelReady event
OverlayEventuallyRemoved ==
    \A k \in 1..MaxSnapshots :
        (call.fn = "snapshots" /\ Len(call.arg) >= k)
            ~> (call.fn = "snapshots" /\ Len(call.arg) >= k /\ ~call.arg[k].parentNode)

(*************************** AppState *************************************)
MaxJoints == 2
JointTypes == {"fixed", "revolute"}

\* a map a model may carry: absent (undefined), or present with its size
Absent == [present |-> FALSE, size |-> 0]
MapOf(size) == [present |-> TRUE, size |-> size]

RECURSIVE SeqsUpTo(_, _)
SeqsUpTo(S, n) ==
    IF n = 0 THEN {<<>>}
    ELSE SeqsUpTo(S, n - 1) \cup
         {Append(q, e) : q \in {r \in SeqsUpTo(S, n - 1) : Len(r) = n - 1}, e \in S}

\* the values of currentModel: null, or a model with links, joints (the types
\* of the joints map's values), constraints and rootLink
NoModel ==
    [isNull |-> TRUE, links |-> Absent, hasJointsMap |-> FALSE, joints |-> <<>>,
     constraints |-> Absent, rootLink |-> "null"]
Models ==
    [isNull : {FALSE}, links : {Absent, MapOf(0), MapOf(2)},
     hasJointsMap : {TRUE}, joints : SeqsUpTo(JointTypes, MaxJoints),
     constraints : {Absent, MapOf(0), MapOf(2)},
     rootLink : {"null", "", "base_link"}]
        \cup
    [isNull : {FALSE}, links : {Absent, MapOf(0), MapOf(2)},
     hasJointsMap : {FALSE}, joints : {<<>>},
     constraints : {Absent, MapOf(0), MapOf(2)},
     rootLink : {"null", "", "base_link"}]

\* new AppState(), lines 13-20
newAppState ==
    [currentModel |-> NoModel, currentMJCFFile |-> "null", currentMJCFModel |-> "null",
     angleUnit |-> "rad", vscodeFileMap |-> {}, isReloading |-> FALSE]

\* a reset that also puts the angle unit back
resetAppStateAll(st) ==
    [st EXCEPT !.currentModel = NoModel, !.currentMJCFFile = "null",
               !.currentMJCFModel = "null", !.angleUnit = "rad"]

\* AppState.reset, lines 25-29
resetAppState(st) ==
    [st EXCEPT !.currentModel = NoModel, !.currentMJCFFile = "null",
               !.currentMJCFModel = "null"]

\* a setter that keeps the first unit
setAngleUnitOnce(st, unit) == st

\* setAngleUnit, lines 55-57, and setReloading, lines 34-36
setAngleUnit(st, unit) == [st EXCEPT !.angleUnit = unit]
setReloading(st, value) == [st EXCEPT !.isReloading = value]

\* getAngleUnit, lines 48-50, and isReloading, lines 41-43
getAngleUnit(st) == st.angleUnit
isReloading(st) == st.isReloading

NullSummary ==
    [isNull |-> TRUE, hasLinks |-> FALSE, hasJoints |-> FALSE,
     controllableJoints |-> 0, hasConstraints |-> FALSE, rootLink |-> "null"]

\* filter(j => j.type !== 'fixed').length
controllable(joints) == Len(SelectSeq(joints, LAMBDA t : t # "fixed"))

\* a summary that counts every joint
getModelSummaryAllJoints(st) ==
    LET model == st.currentModel IN
    IF model.isNull THEN NullSummary
    ELSE [isNull |-> FALSE,
          hasLinks |-> model.links.present /\ model.links.size > 0,
          hasJoints |-> model.hasJointsMap /\ Len(model.joints) > 0,
          controllableJoints |-> IF model.hasJointsMap THEN Len(model.joints) ELSE 0,
          hasConstraints |-> model.constraints.present /\ model.constraints.size > 0,
          rootLink |-> IF model.rootLink \in {"null", ""} THEN "null" ELSE model.rootLink]

\* getModelSummary, lines 62-93; "if (model.rootLink)" is false for null and
\* for the empty string
getModelSummary(st) ==
    LET model == st.currentModel IN
    IF model.isNull THEN NullSummary
    ELSE [isNull |-> FALSE,
          hasLinks |-> model.links.present /\ model.links.size > 0,
          hasJoints |-> model.hasJointsMap /\ Len(model.joints) > 0,
          controllableJoints |->
              IF model.hasJointsMap THEN controllable(model.joints) ELSE 0,
          hasConstraints |-> model.constraints.present /\ model.constraints.size > 0,
          rootLink |-> IF model.rootLink \in {"null", ""} THEN "null" ELSE model.rootLink]

\* the AppState, and with the last operation on it the values last passed to
\* the two setters
State == IF call.fn = "state" THEN call.arg ELSE newAppState
LastSet ==
    IF call.fn = "state" THEN call.ret
    ELSE [op |-> "new", value |-> "none", unit |-> "rad", reloading |-> FALSE]

did(st, op, value, unit, reloading) ==
    [fn |-> "state", arg |-> st,
     ret |-> [op |-> op, value |-> value, unit |-> unit, reloading |-> reloading]]

\* app.state.currentModel = model, part_006 lines 96 and 164
AssignModel(model) ==
    /\ call.fn \in {"none", "state"}
    /\ call' = did([State EXCEPT !.currentModel = model], "assign", "none",
                   LastSet.unit, LastSet.reloading)
    /\ UNCHANGED prog

\* part_006 lines 32-38: the MJCF file and model are set or cleared together
AssignMJCF(file) ==
    /\ call.fn \in {"none", "state"}
    /\ call' = did([State EXCEPT !.currentMJCFFile = file, !.currentMJCFModel = file],
                   "assign", "none", LastSet.unit, LastSet.reloading)
    /\ UNCHANGED prog

\* FileHandler.ts line 64: vscodeFileMap.set(name, info)
SetVscodeFile(name) ==
    /\ call.fn \in {"none", "state"}
    /\ call' = did([State EXCEPT !.vscodeFileMap = @ \cup {name}], "assign", "none",
                   LastSet.unit, LastSet.reloading)
    /\ UNCHANGED prog

ResetAppState ==
    /\ call.fn \in {"none", "state"}
    /\ call' = did(resetAppState(State), "reset", "none",
                   LastSet.unit, LastSet.reloading)
    /\ UNCHANGED prog

SetAngleUnit(unit) ==
    /\ call.fn \in {"none", "state"}
    /\ call' = did(setAngleUnit(State, unit), "setAngleUnit", "none",
                   unit, LastSet.reloading)
    /\ UNCHANGED prog

SetReloading(value) ==
    /\ call.fn \in {"none", "state"}
    /\ call' = did(setReloading(State, value), "setReloading", "none",
                   LastSet.unit, value)
    /\ UNCHANGED prog

GetAngleUnit ==
    /\ call.fn \in {"none", "state"}
    /\ call' = did(State, "getAngleUnit", getAngleUnit(State),
                   LastSet.unit, LastSet.reloading)
    /\ UNCHANGED prog

IsReloading ==
    /\ call.fn \in {"none", "state"}
    /\ call' = did(State, "isReloading", isReloading(State),
                   LastSet.unit, LastSet.reloading)
    /\ UNCHANGED prog

GetModelSummary ==
    /\ call.fn \in {"none", "state"}
    /\ call' = did(State, "getModelSummary", getModelSummary(State),
                   LastSet.unit, LastSet.reloading)
    /\ UNCHANGED prog

\* a model with two links, a fixed and a movable joint and a root link
SomeModel ==
    [isNull |-> FALSE, links |-> MapOf(2), hasJointsMap |-> TRUE,
     joints |-> <<"fixed", "revolute">>, constraints |-> Absent,
     rootLink |-> "base_link"]

\* the operations of AppState on a state whose model is null or SomeModel
NextState ==
    \/ \E model \in {NoModel, SomeModel} : AssignModel(model)
    \/ \E file \in {"null", "scene.xml"} : AssignMJCF(file)
    \/ SetVscodeFile("robot.urdf")
    \/ ResetAppState
    \/ \E unit \in {"rad", "deg"} : SetAngleUnit(unit)
    \/ \E value \in BOOLEAN : SetReloading(value)
    \/ GetAngleUnit
    \/ IsReloading
    \/ GetModelSummary

SpecState == Init /\ [][NextState]_vars

\* the summary of every model
NextSummary ==
    \/ \E model \in Models \cup {NoModel} : AssignModel(model)
    \/ ResetAppState
    \/ GetModelSummary

SpecSummary == Init /\ [][NextSummary]_vars

\* C28: reset() sets currentModel, currentMJCFFile and currentMJCFModel to
\* null whatever they were, and leaves angleUnit, the reloading flag and
\* vscodeFileMap unchanged.
C28_ResetFrame ==
    [][(call'.fn = "state" /\ call'.ret.op = "reset") =>
          /\ call'.arg.currentModel = NoModel
          /\ call'.arg.currentMJCFFile = "null"
          /\ call'.arg.currentMJCFModel = "null"
          /\ call'.arg.angleUnit = State.angleUnit
          /\ call'.arg.isReloading = State.isReloading
          /\ call'.arg.vscodeFileMap = State.vscodeFileMap]_vars

\* a reset of a state that had a model, an MJCF file, degrees, the reloading
\* flag and a file in vscodeFileMap
C28_Witness ==
    /\ call.fn = "state" /\ call.ret.op = "reset"
    /\ call.arg.angleUnit = "deg" /\ call.arg.isReloading
    /\ call.arg.vscodeFileMap # {}
    /\ call.arg.currentModel = NoModel

\* C29: getModelSummary() returns null exactly when there is no current
\* model; otherwise hasLinks, hasJoints and hasConstraints say whether the map
\* is present and non-empty, controllableJoints is the number of joints whose
\* type is not 'fixed' (0 without a joints map), and rootLink is the model's
\* rootLink, or null when it has none (null or empty).
C29_ModelSummary ==
    (call.fn = "state" /\ call.ret.op = "getModelSummary") =>
        LET model == call.arg.currentModel
            summary == call.ret.value
        IN  /\ summary.isNull <=> model = NoModel
            /\ model # NoModel =>
                /\ summary.hasLinks <=> (model.links.present /\ model.links.size # 0)
                /\ summary.hasJoints <=> (model.hasJointsMap /\ model.joints # <<>>)
                /\ summary.hasConstraints <=>
                      (model.constraints.present /\ model.constraints.size # 0)
                /\ summary.controllableJoints =
                      Cardinality({i \in DOMAIN model.joints : model.joints[i] # "fixed"})
                /\ summary.rootLink =
                      IF model.rootLink = "" THEN "null" ELSE model.rootLink

\* the summary of a model with a fixed and a movable joint and a root link
C29_Witness ==
    /\ call.fn = "state" /\ call.ret.op = "getModelSummary"
    /\ call.arg.currentModel # NoModel
    /\ call.arg.currentModel.joints = <<"fixed", "revolute">>
    /\ call.ret.value.controllableJoints = 1
    /\ call.ret.value.rootLink = "base_link"

\* C30: a fresh AppState has the three current fields null, angleUnit 'rad'
\* and isReloading() false; after any sequence of operations getAngleUnit()
\* returns the value last passed to setAngleUnit and isReloading() the value
\* last passed to setReloading.
C30_GettersReturnLastSet ==
    /\ call.fn = "none" =>
          /\ State.currentModel = NoModel
          /\ State.currentMJCFFile = "null" /\ State.currentMJCFModel = "null"
          /\ getAngleUnit(State) = "rad" /\ ~isReloading(State)
    /\ (call.fn = "state" /\ call.ret.op = "getAngleUnit") =>
          call.ret.value = call.ret.unit
    /\ (call.fn = "state" /\ call.ret.op = "isReloading") =>
          call.ret.value = call.ret.reloading

\* getAngleUnit() after setAngleUnit('deg') and a reset in between
C30_Witness ==
    /\ call.fn = "state" /\ call.ret.op = "getAngleUnit"
    /\ call.ret.value = "deg"
    /\ call.arg.currentModel = NoModel /\ call.arg.vscodeFileMap # {}

\* the pose the conversion gives a body at its engine position and orientation
ConvertedPose(e, b) ==
    [position |-> <<xpos(e)[3 * b + 1], xpos(e)[3 * b + 3], 0 - xpos(e)[3 * b + 2]>>,
     quaternion |-> <<0 - xquat(e)[4 * b + 2], 0 - xquat(e)[4 * b + 4],
                      xquat(e)[4 * b + 3], 0 - xquat(e)[4 * b + 1]>>]

\* C31: an update of a loaded and paused manager takes no physics step and
\* leaves mujoco_time and the engine state unchanged; after every update of a
\* loaded manager, paused or simulating, every body group has the converted
\* engine pose of its body.
C31_UpdateCopiesPoses ==
    [][(clock' > clock /\ mgr.isLoaded) =>
          /\ mgr.paused =>
                (obs'.steps = 0 /\ mgr'.mujoco_time = mgr.mujoco_time /\ eng' = eng)
          /\ DOMAIN obs'.poses = bodyIds
          /\ \A b \in bodyIds : obs'.poses[b] = ConvertedPose(eng', b)]_vars

\* an update of a manager paused after the engine advanced
C31_Witness ==
    /\ obs.op = "update" /\ obs.steps = 0
    /\ mgr.isLoaded /\ mgr.paused /\ eng.status = "advanced"
    /\ obs.poses # NoPoses
    /\ obs.poses[1].position = <<1, 1, -2>>

\* ---------------------------------------------------------------------
\* Axis conversion in the construction pass and in the update pass
\* (MujocoSimulationManager.js)

\* the loop body with the sign on the other component
permuteTripleOtherSign(buffer, v) ==
    LET temp == buffer[v + 2] IN
    [buffer EXCEPT ![v + 2] = 0 - buffer[v + 3], ![v + 3] = temp]

\* createMeshGeometry, lines 626-628 and 638-640: the body of the loop that
\* rewrites a buffer of triples in place, at offset v (0-based)
permuteTriple(buffer, v) ==
    LET temp == buffer[v + 2] IN
    [buffer EXCEPT ![v + 2] = buffer[v + 3], ![v + 3] = 0 - temp]

\* createMeshGeometry, lines 625-629 and 637-641: the loop from offset v on
RECURSIVE permuteFrom(_, _)
permuteFrom(buffer, v) ==
    IF v >= Len(buffer) THEN buffer
    ELSE permuteFrom(permuteTriple(buffer, v), v + 3)

\* TypedArray.subarray(begin, end) with 0-based bounds
subarray(buffer, begin, end) == SubSeq(buffer, begin + 1, end)

\* a model whose meshes have one vertex each, mesh i at vertex address i
MeshModel(vert, normal) ==
    [mesh_vert |-> vert, mesh_normal |-> normal,
     mesh_vertadr |-> [i \in {0, 1} |-> i], mesh_vertnum |-> [i \in {0, 1} |-> 1]]

\* createMeshGeometry, lines 615-652: the position and normal attributes of
\* the geometry of mesh meshID
createMeshGeometry(model, meshID) ==
    LET begin == model.mesh_vertadr[meshID] * 3
        end == (model.mesh_vertadr[meshID] + model.mesh_vertnum[meshID]) * 3
    IN [position |-> permuteFrom(subarray(model.mesh_vert, begin, end), 0),
        normal |-> permuteFrom(subarray(model.mesh_normal, begin, end), 0)]

\* createThreeScene, lines 467, 536, 575 and 605: geom, centre-of-mass
\* (marker and inertia box) and joint positions, read with the default
\* swizzle = true
constructPositions(model, i) ==
    [geom |-> getPosition(model.geom_pos, i, TRUE),
     com |-> getPosition(model.body_ipos, i, TRUE),
     inertia |-> getPosition(model.body_ipos, i, TRUE),
     joint |-> getPosition(model.jnt_pos, i, TRUE)]

\* update, line 780: the position of body b
updatePosition(xposBuffer, b) == getPosition(xposBuffer, b, TRUE)

\* the geometry of mesh i is built from a model whose vertex and normal
\* buffers both hold the engine triples of buffer
CallCreateMeshGeometry(buffer, i) ==
    /\ call' = [fn |-> "createMeshGeometry", arg |-> <<buffer, i>>,
                ret |-> LET g == createMeshGeometry(MeshModel(buffer, buffer), i)
                        IN <<g.position, g.normal>>]
    /\ UNCHANGED prog

\* the construction pass converts the same triples as positions
CallConstruct ==
    /\ call.fn = "createMeshGeometry"
    /\ LET buffer == call.arg[1]
           p == constructPositions([geom_pos |-> buffer, body_ipos |-> buffer,
                                    jnt_pos |-> buffer], call.arg[2])
       IN call' = [fn |-> "construct", arg |-> call.arg,
                   ret |-> call.ret \o <<p.geom, p.com, p.inertia, p.joint>>]
    /\ UNCHANGED prog

\* the update pass converts the same triples as body positions
CallUpdatePass ==
    /\ call.fn = "construct"
    /\ call' = [fn |-> "updatePass", arg |-> call.arg,
                ret |-> Append(call.ret, updatePosition(call.arg[1], call.arg[2]))]
    /\ UNCHANGED prog

NextAxis ==
    \/ \E buffer \in Buffers, i \in {0, 1} : CallCreateMeshGeometry(buffer, i)
    \/ CallConstruct
    \/ CallUpdatePass

SpecAxis == Init /\ [][NextAxis]_vars

\* the render triples the passes made so far produced for one engine triple
AxisPasses == {"createMeshGeometry", "construct", "updatePass"}

\* C32: the permutation createMeshGeometry bakes into vertex and normal
\* buffers, the conversion of geom, centre-of-mass and joint positions at
\* construction and the conversion of body positions in update send an
\* engine triple (x, y, z) to one and the same render triple.
C32_OneAxisMap ==
    call.fn \in AxisPasses =>
        \A k \in 1..Len(call.ret) :
            /\ call.ret[k] = call.ret[1]
            /\ call.ret[k] = LET q == EnginePos(call.arg)
                             IN <<q[1], q[3], 0 - q[2]>>

\* all three passes converted the second triple, whose components are
\* different and non-zero
C32_Witness ==
    /\ call.fn = "updatePass" /\ Len(call.ret) = 7 /\ call.arg[2] = 1
    /\ EnginePos(call.arg) = <<1, 2, -1>>
    /\ call.ret[1] = <<1, -1, -2>> /\ call.ret[7] = <<1, -1, -2>>

\* ---------------------------------------------------------------------
\* VisualizationManager (VisualizationManager.js)
\* The render tree of the current model, as the URDF loader builds it: a
\* link holds its visual and collider containers, its auxiliary objects and
\* its joints; a joint holds its child link.  "hand" hangs below "base"
\* through a fixed joint, "arm" through a revolute one.  The collider of
\* "base" is a container around its mesh, the collider of "hand" is a mesh
\* that carries the collider flag itself.
parentOf ==
    [n \in {"base_visual", "base_collider", "base_com", "base_axes", "j_fixed",
            "j_rev", "base_mesh", "base_cmesh", "base_axes_mesh", "hand",
            "hand_visual", "hand_mesh", "hand_cmesh", "arm", "arm_visual",
            "arm_mesh"} |->
        CASE n \in {"base_visual", "base_collider", "base_com", "base_axes",
                    "j_fixed", "j_rev"} -> "base"
          [] n = "base_mesh" -> "base_visual"
          [] n = "base_cmesh" -> "base_collider"
          [] n = "base_axes_mesh" -> "base_axes"
          [] n = "hand" -> "j_fixed"
          [] n \in {"hand_visual", "hand_cmesh"} -> "hand"
          [] n = "hand_mesh" -> "hand_visual"
          [] n = "arm" -> "j_rev"
          [] n = "arm_visual" -> "arm"
          [] n = "arm_mesh" -> "arm_visual"]
SceneNodes == DOMAIN parentOf \cup {"base"}
childrenOf(obj) == {n \in DOMAIN parentOf : parentOf[n] = obj}
SceneLinks == {"base", "hand", "arm"}
isURDFLink(obj) == obj \in SceneLinks
isURDFJoint(obj) == obj \in {"j_fixed", "j_rev"}
isURDFVisual(obj) == obj \in {"base_visual", "hand_visual", "arm_visual"}
isURDFCollider(obj) == obj \in {"base_collider", "hand_cmesh"}
isMesh(obj) ==
    obj \in {"base_mesh", "base_cmesh", "base_com", "base_axes_mesh", "hand_mesh",
             "hand_cmesh", "arm_mesh"}
isCOMMarker(obj) == obj = "base_com"
endsWithAxes(obj) == obj = "base_axes"
\* currentModel.joints.get(name).type
jointType == [j \in {"j_fixed", "j_rev"} |-> IF j = "j_fixed" THEN "fixed" ELSE "revolute"]

\* Object3D.traverse: the object and everything below it
RECURSIVE subtree(_)
subtree(obj) == {obj} \cup UNION {subtree(c) : c \in childrenOf(obj)}

\* extractVisualAndCollision, lines 80-89: the object or one of its parents
\* is a collider
RECURSIVE isInCollider(_)
isInCollider(obj) ==
    \/ isURDFCollider(obj)
    \/ obj \in DOMAIN parentOf /\ isInCollider(parentOf[obj])

\* constructor, lines 7-18; every object of a new tree is visible
newVisualizationManager ==
    [visualMeshes |-> {}, collisionMeshes |-> {}, colliders |-> {},
     hiddenLinks |-> {}, showVisual |-> TRUE, showCollision |-> FALSE,
     visible |-> [n \in SceneNodes |-> TRUE]]

\* extractVisualAndCollision, lines 23-121
extractVisualAndCollision(vm) ==
    LET colliders == {n \in subtree("base") : isURDFCollider(n)}
        collisionMeshes == {n \in UNION {subtree(c) : c \in colliders} : isMesh(n)}
        visualMeshes == {n \in subtree("base") : isMesh(n) /\ ~isInCollider(n)}
    IN [vm EXCEPT !.colliders = colliders,
                  !.collisionMeshes = collisionMeshes,
                  !.visualMeshes = visualMeshes,
                  !.visible = [n \in SceneNodes |->
                                  IF n \in visualMeshes THEN vm.showVisual
                                  ELSE IF n \in colliders THEN vm.showCollision
                                  ELSE vm.visible[n]]]

\* isAuxiliaryVisualization, lines 287-294 (nothing in src/ sets
\* userData.isInertiaBox or userData.isCollision)
isAuxiliaryVisualization(obj) == isCOMMarker(obj)

\* setLinkVisibility, lines 221-277: the meshes traverseNonRecursive assigns
\* to, from obj down
RECURSIVE assigned(_, _)
assigned(obj, isRoot) ==
    IF ~isRoot /\ isURDFLink(obj) THEN {}
    ELSE IF isURDFJoint(obj)
    THEN IF jointType[obj] = "fixed"
         THEN UNION {assigned(c, FALSE) : c \in childrenOf(obj)}
         ELSE {}
    ELSE IF isAuxiliaryVisualization(obj) THEN {}
    ELSE IF endsWithAxes(obj) THEN {}
    ELSE IF isMesh(obj) /\ isURDFCollider(obj) THEN {}
    ELSE (IF isMesh(obj) THEN {obj} ELSE {})
             \cup UNION {assigned(c, FALSE) : c \in childrenOf(obj)}

\* setLinkVisibility, lines 219-282
setLinkVisibility(vm, linkObject, visible) ==
    [vm EXCEPT !.visible = [n \in SceneNodes |->
                               IF n \in assigned(linkObject, TRUE)
                               THEN visible /\ vm.showVisual
                               ELSE vm.visible[n]]]

\* toggleVisual, lines 126-139: forEach over the links of the model, in the
\* order they are listed
RECURSIVE setEachLink(_, _, _)
setEachLink(vm, order, show) ==
    IF order = <<>> THEN vm
    ELSE setEachLink(setLinkVisibility(vm, Head(order),
                                       show /\ Head(order) \notin vm.hiddenLinks),
                     Tail(order), show)
toggleVisual(vm, show) ==
    setEachLink([vm EXCEPT !.showVisual = show], <<"base", "hand", "arm">>, show)

\* toggleCollision, lines 144-155
toggleCollision(vm, show) ==
    [vm EXCEPT !.showCollision = show,
               !.visible = [n \in SceneNodes |->
                               IF n \in vm.colliders \cup vm.collisionMeshes
                               THEN show ELSE vm.visible[n]]]

\* toggleLinkVisibility, lines 187-210: the manager afterwards (a name the
\* model has no link for changes nothing)
toggleLinkVisibility(vm, linkName) ==
    IF linkName \notin SceneLinks THEN vm
    ELSE LET isHidden == linkName \in vm.hiddenLinks
             toggled == [vm EXCEPT !.hiddenLinks =
                            IF isHidden THEN @ \ {linkName} ELSE @ \cup {linkName}]
         IN setLinkVisibility(toggled, linkName, isHidden)

\* clear, lines 356-361
clearMeshes(vm) ==
    [vm EXCEPT !.visualMeshes = {}, !.collisionMeshes = {}, !.colliders = {},
               !.hiddenLinks = {}]

NewVisualizationManager ==
    /\ call.fn = "none"
    /\ call' = [fn |-> "new", arg |-> <<>>, ret |-> newVisualizationManager]
    /\ UNCHANGED prog

VisReady == call.fn \in {"new", "extractVisualAndCollision", "toggleVisual",
                         "toggleCollision", "toggleLinkVisibility", "clear"}

ExtractVisualAndCollision ==
    /\ VisReady
    /\ call' = [fn |-> "extractVisualAndCollision", arg |-> <<>>,
                ret |-> extractVisualAndCollision(call.ret)]
    /\ UNCHANGED prog

ToggleVisual(show) ==
    /\ VisReady
    /\ call' = [fn |-> "toggleVisual", arg |-> <<show>>,
                ret |-> toggleVisual(call.ret, show)]
    /\ UNCHANGED prog

ToggleCollision(show) ==
    /\ VisReady
    /\ call' = [fn |-> "toggleCollision", arg |-> <<show>>,
                ret |-> toggleCollision(call.ret, show)]
    /\ UNCHANGED prog

ToggleLinkVisibility(linkName) ==
    /\ VisReady
    /\ call' = [fn |-> "toggleLinkVisibility", arg |-> <<linkName>>,
                ret |-> toggleLinkVisibility(call.ret, linkName)]
    /\ UNCHANGED prog

ClearMeshes ==
    /\ VisReady
    /\ call' = [fn |-> "clear", arg |-> <<>>, ret |-> clearMeshes(call.ret)]
    /\ UNCHANGED prog

NextVis ==
    \/ NewVisualizationManager
    \/ ExtractVisualAndCollision
    \/ \E show \in BOOLEAN : ToggleVisual(show)
    \/ \E show \in BOOLEAN : ToggleCollision(show)
    \/ \E linkName \in SceneLinks \cup {"none"} : ToggleLinkVisibility(linkName)
    \/ ClearMeshes

SpecVis == Init /\ [][NextVis]_vars

\* the links displayed merged with a link: the link and every link below it
\* through fixed joints only
RECURSIVE mergedLinks(_)
mergedLinks(link) ==
    {link} \cup UNION {mergedLinks(c) :
                          c \in {n \in SceneLinks : /\ n \in DOMAIN parentOf
                                                   /\ parentOf[n] \in childrenOf(link)
                                                   /\ jointType[parentOf[n]] = "fixed"}}

\* the link an object belongs to: the nearest link at or above it
RECURSIVE linkOf(_)
linkOf(obj) == IF isURDFLink(obj) THEN obj ELSE linkOf(parentOf[obj])

\* the visual meshes of a link: the meshes in its visual containers
visualMeshesOf(link) ==
    {n \in SceneNodes : isMesh(n) /\ linkOf(n) = link
                        /\ n \in DOMAIN parentOf /\ isURDFVisual(parentOf[n])}

\* C34: toggleLinkVisibility gives the new visibility to the visual meshes
\* of the link and of every child link below it through fixed joints only,
\* and changes the visibility of nothing else: no mesh at or below a
\* movable joint, no collision mesh, no auxiliary visualization.
C34_LinkVisibilityScope ==
    [][(VisReady /\ call'.fn = "toggleLinkVisibility" /\ call'.arg[1] \in SceneLinks) =>
          LET link == call'.arg[1]
              scope == UNION {visualMeshesOf(l) : l \in mergedLinks(link)}
              newVisibility == link \in call.ret.hiddenLinks
          IN \A n \in SceneNodes :
                 call'.ret.visible[n] =
                     IF n \in scope THEN newVisibility /\ call.ret.showVisual
                     ELSE call.ret.visible[n]]_vars

\* C35: after any sequence of extractVisualAndCollision, toggleVisual and
\* toggleLinkVisibility calls, a visual mesh of a link is visible only if
\* showVisual is true and the link is not in hiddenLinks.
C35_VisibleOnlyIfShown ==
    VisReady =>
        \A link \in SceneLinks : \A n \in visualMeshesOf(link) :
            call.ret.visible[n] =>
                (call.ret.showVisual /\ link \notin call.ret.hiddenLinks)

\* C36: once handleModelLoaded has completed for a new model the physics
\* bridge holds no scene built from a model loaded before it, also when a
\* loadScene was in flight when the new model arrived.  A load that waits
\* for its assets in a state whose last operation is the model load was
\* started for the model before: reaching that wait leaves its own
\* observation.
C36_NoSceneOfPreviousModel ==
    [][/\ obs'.op = "modelLoaded" => ~mgr'.isLoaded
       /\ (obs.op = "modelLoaded" /\ pc'.assets < pc.assets) => ~mgr'.isLoaded]_vars

\* ---------------------------------------------------------------------
\* Code-editor reloads (App.init, part_003 lines 220-229)
\* The application as a reload sees it: the AppState, the file handler's
\* current model file, and the onReload calls suspended at
\* "await this.fileHandler.loadFile(file)", each with its arguments.
MaxReloads == 3
ReloadFiles == {"robot.urdf", "scene.xml"}
newReloadApp == [state |-> newAppState, currentModelFile |-> "null", reloads |-> <<>>]

\* a sequence without its element of position i
removeAt(q, i) == SubSeq(q, 1, i - 1) \o SubSeq(q, i + 1, Len(q))

\* onReload, lines 220-226: up to the await
onReloadCall(a, file, skipTreeUpdate) ==
    LET st == IF skipTreeUpdate THEN setReloading(a.state, TRUE) ELSE a.state
    IN [a EXCEPT !.state = st, !.currentModelFile = file,
                 !.reloads = Append(@, [file |-> file, skip |-> skipTreeUpdate])]

\* onReload, line 228: loadFile resolved and the call of position i goes on
onReloadResumed(a, i) ==
    [a EXCEPT !.state = setReloading(@, FALSE), !.reloads = removeAt(a.reloads, i)]

\* loadFile rejected: the await throws, there is no try around it, and the
\* call of position i ends there
onReloadRejected(a, i) == [a EXCEPT !.reloads = removeAt(a.reloads, i)]

ReloadApp == IF call.fn \in {"onReload", "loadFileResolved", "loadFileRejected"}
             THEN call.ret ELSE newReloadApp

OnReload(file, skipTreeUpdate) ==
    /\ call.fn \in {"none", "onReload", "loadFileResolved", "loadFileRejected"}
    /\ Len(ReloadApp.reloads) < MaxReloads
    /\ call' = [fn |-> "onReload", arg |-> <<file, skipTreeUpdate>>,
                ret |-> onReloadCall(ReloadApp, file, skipTreeUpdate)]
    /\ UNCHANGED prog

LoadFileResolved(i) ==
    /\ call.fn \in {"onReload", "loadFileResolved", "loadFileRejected"}
    /\ i \in 1..Len(call.ret.reloads)
    /\ call' = [fn |-> "loadFileResolved", arg |-> call.ret.reloads[i],
                ret |-> onReloadResumed(call.ret, i)]
    /\ UNCHANGED prog

LoadFileRejected(i) ==
    /\ call.fn \in {"onReload", "loadFileResolved", "loadFileRejected"}
    /\ i \in 1..Len(call.ret.reloads)
    /\ call' = [fn |-> "loadFileRejected", arg |-> call.ret.reloads[i],
                ret |-> onReloadRejected(call.ret, i)]
    /\ UNCHANGED prog

NextReload ==
    \/ \E file \in ReloadFiles, skip \in BOOLEAN : OnReload(file, skip)
    \/ \E i \in 1..MaxReloads : LoadFileResolved(i)
    \/ \E i \in 1..MaxReloads : LoadFileRejected(i)

SpecReload == Init /\ [][NextReload]_vars

\* C37: the reloading flag is true as long as a reload started with
\* skipTreeUpdate = true is in progress, and false whenever no reload is
\* in progress, also after a loadFile that rejected and when reloads
\* overlap.
C37_ReloadingFlag ==
    LET a == ReloadApp IN
    /\ (\E i \in 1..Len(a.reloads) : a.reloads[i].skip) => isReloading(a.state)
    /\ a.reloads = <<>> => ~isReloading(a.state)

\* ---------------------------------------------------------------------
\* OBJ meshes and the cached loaders (main.ts, getLoaders and loadMeshFile)
\* loadersCache holds one OBJLoader for all calls; what matters of it is
\* the materials it was last given.  A call of loadMeshFile for an OBJ file
\* waits first for its MTL file, when the bundle has one, and then for the
\* OBJ file; OBJLoader parses the text with the materials it holds when the
\* file has arrived.
MaxObjCalls == 2
\* the OBJ files of the bundle and the same-named MTL file of each, if any
mtlFileOf ==
    [obj \in {"a.obj", "b.obj", "c.obj"} |->
        IF obj = "a.obj" THEN "a.mtl" ELSE IF obj = "c.obj" THEN "c.mtl" ELSE "none"]
newObjLoading == [materials |-> "null", calls |-> <<>>, parsed |-> <<>>]

\* loadMeshFile, lines 217-224: the OBJ branch up to its first await
loadObjCall(w, obj) ==
    [w EXCEPT !.calls = Append(@, [obj |-> obj,
                                   at |-> IF mtlFileOf[obj] # "none" THEN "mtl" ELSE "obj"])]

\* loadMeshFile, lines 224-236: MTLLoader.load settled for the call of
\* position i; a failure is caught and logged
mtlSettled(w, i, ok) ==
    [w EXCEPT !.materials = IF ok THEN mtlFileOf[w.calls[i].obj] ELSE @,
              !.calls[i].at = "obj"]

\* loadMeshFile, lines 238-243 and 266-272: OBJLoader.load settled for the
\* call of position i; on success the text was parsed with the loader's
\* materials and the call goes on to setMaterials(null), on failure the
\* await throws to the catch of line 268
objSettled(w, i, ok) ==
    [w EXCEPT !.materials = IF ok THEN "null" ELSE @,
              !.parsed = IF ok THEN <<[obj |-> w.calls[i].obj, materials |-> w.materials]>>
                         ELSE <<>>,
              !.calls = removeAt(@, i)]

ObjOps == {"loadMeshFileObj", "mtlSettled", "objSettled"}
ObjLoading == IF call.fn \in ObjOps THEN call.ret ELSE newObjLoading

LoadMeshFileObj(obj) ==
    /\ call.fn \in ObjOps \cup {"none"}
    /\ Len(ObjLoading.calls) < MaxObjCalls
    /\ call' = [fn |-> "loadMeshFileObj", arg |-> <<obj>>,
                ret |-> loadObjCall(ObjLoading, obj)]
    /\ UNCHANGED prog

MtlSettled(i, ok) ==
    /\ call.fn \in ObjOps
    /\ i \in 1..Len(call.ret.calls)
    /\ call.ret.calls[i].at = "mtl"
    /\ call' = [fn |-> "mtlSettled", arg |-> <<call.ret.calls[i].obj, ok>>,
                ret |-> mtlSettled(call.ret, i, ok)]
    /\ UNCHANGED prog

ObjSettled(i, ok) ==
    /\ call.fn \in ObjOps
    /\ i \in 1..Len(call.ret.calls)
    /\ call.ret.calls[i].at = "obj"
    /\ call' = [fn |-> "objSettled", arg |-> <<call.ret.calls[i].obj, ok>>,
                ret |-> objSettled(call.ret, i, ok)]
    /\ UNCHANGED prog

NextObj ==
    \/ \E obj \in DOMAIN mtlFileOf : LoadMeshFileObj(obj)
    \/ \E i \in 1..MaxObjCalls, ok \in BOOLEAN : MtlSettled(i, ok)
    \/ \E i \in 1..MaxObjCalls, ok \in BOOLEAN : ObjSettled(i, ok)

SpecObj == Init /\ [][NextObj]_vars

\* C38: each OBJ mesh is parsed with the materials of its own same-named
\* MTL file or with none; the shared OBJLoader never carries materials
\* over from another loadMeshFile call, overlapping or finished, successful
\* or failed.
C38_OwnMaterialsOnly ==
    \A k \in 1..Len(ObjLoading.parsed) :
        LET p == ObjLoading.parsed[k] IN
        \/ p.materials = "null"
        \/ p.materials = mtlFileOf[p.obj]

\* ---------------------------------------------------------------------
\* The current MJCF file and model (ModelHandler, part_006 lines 16-40;
\* SimulationHandler, part_004 lines 26-38)
\* A file is its name; a model is the file it was parsed from, its
\* userData.type, and its joints map (absent, or of some size).
MaxToggles == 2
PairFiles == {"a.xml", "b.XML", "r.urdf"}
\* file.name.split('.').pop().toLowerCase()
extLower == [f \in PairFiles |-> IF f = "r.urdf" THEN "urdf" ELSE "xml"]
NullPairModel == [of |-> "null", type |-> "none", hasJointsMap |-> FALSE, size |-> 0]
PairModels ==
    [of : PairFiles, type : {"mjcf", "urdf"}, hasJointsMap : BOOLEAN, size : {0, 2}]
newPairApp ==
    [currentMJCFFile |-> "null", currentMJCFModel |-> NullPairModel,
     loadedFile |-> "null", loadedModel |-> NullPairModel,
     hasScene |-> FALSE, toggles |-> <<>>, loadScene |-> <<>>]

\* isMJCF, lines 16-19
isMJCF(file, model) == extLower[file] = "xml" /\ model.type = "mjcf"

\* setupMJCFSimulationControls, lines 24-40
setupMJCFSimulationControls(a, file, model) ==
    IF isMJCF(file, model) /\ model.hasJointsMap /\ model.size > 0
    THEN [a EXCEPT !.currentMJCFFile = file, !.currentMJCFModel = model]
    ELSE [a EXCEPT !.currentMJCFFile = "null", !.currentMJCFModel = NullPairModel]

\* App.handleModelLoaded, part_003 lines 293-299, and
\* ModelHandler.handleModelLoaded, part_006 lines 450-463
handleModelLoaded(a, file, model) ==
    [setupMJCFSimulationControls(a, file, model) EXCEPT
        !.loadedFile = file, !.loadedModel = model, !.hasScene = FALSE]

\* AppState.reset, AppState.ts lines 25-29
resetPair(a) == [a EXCEPT !.currentMJCFFile = "null", !.currentMJCFModel = NullPairModel]

\* handleMujocoToggleSimulate, part_004 lines 26-30: the load branch up to
\* "await currentMJCFFile.text()", which reads the file current at the call
canLoadFirst(a) ==
    ~a.hasScene /\ a.currentMJCFFile # "null" /\ a.currentMJCFModel # NullPairModel
toggleSimulateCall(a) == [a EXCEPT !.toggles = Append(@, a.currentMJCFFile)]

\* handleMujocoToggleSimulate, part_004 lines 30-49: text() resolved for the
\* call of position i; the name and the model are read from the state now.
\* With no current file the read of .name throws and the catch returns.
textResolved(a, i) ==
    IF a.currentMJCFFile = "null"
    THEN [a EXCEPT !.toggles = removeAt(@, i), !.loadScene = <<>>]
    ELSE [a EXCEPT !.toggles = removeAt(@, i), !.hasScene = TRUE,
                   !.loadScene = <<[xmlContent |-> a.toggles[i],
                                    fileName |-> a.currentMJCFFile,
                                    model |-> a.currentMJCFModel]>>]

PairOps == {"handleModelLoaded", "reset", "toggleSimulate", "textResolved"}
PairApp == IF call.fn \in PairOps THEN call.ret ELSE newPairApp

HandleModelLoaded(file, model) ==
    /\ call.fn \in PairOps \cup {"none"}
    /\ model.of = file
    /\ call' = [fn |-> "handleModelLoaded", arg |-> <<file, model>>,
                ret |-> handleModelLoaded(PairApp, file, model)]
    /\ UNCHANGED prog

ResetPair ==
    /\ call.fn \in PairOps
    /\ call' = [fn |-> "reset", arg |-> <<>>, ret |-> resetPair(call.ret)]
    /\ UNCHANGED prog

ToggleSimulate ==
    /\ call.fn \in PairOps
    /\ canLoadFirst(call.ret)
    /\ Len(call.ret.toggles) < MaxToggles
    /\ call' = [fn |-> "toggleSimulate", arg |-> <<>>,
                ret |-> toggleSimulateCall(call.ret)]
    /\ UNCHANGED prog

TextResolved(i) ==
    /\ call.fn \in PairOps
    /\ i \in 1..Len(call.ret.toggles)
    /\ call' = [fn |-> "textResolved", arg |-> <<call.ret.toggles[i]>>,
                ret |-> textResolved(call.ret, i)]
    /\ UNCHANGED prog

NextPair ==
    \/ \E file \in PairFiles, model \in PairModels : HandleModelLoaded(file, model)
    \/ ResetPair
    \/ ToggleSimulate
    \/ \E i \in 1..MaxToggles : TextResolved(i)

SpecPair == Init /\ [][NextPair]_vars

\* the file and the model are null together
PairTogether ==
    (PairApp.currentMJCFFile = "null") <=> (PairApp.currentMJCFModel = NullPairModel)

\* a current MJCF file is the most recently loaded model's, which is MJCF
\* and has a joint
PairOnlyForMJCF ==
    PairApp.currentMJCFFile # "null" =>
        /\ PairApp.currentMJCFFile = PairApp.loadedFile
        /\ PairApp.currentMJCFModel = PairApp.loadedModel
        /\ extLower[PairApp.loadedFile] = "xml"
        /\ PairApp.loadedModel.type = "mjcf"
        /\ PairApp.loadedModel.hasJointsMap /\ PairApp.loadedModel.size > 0

\* every loadScene got the text, the name and the model of one pair
LoadedFromPair ==
    \A k \in 1..Len(PairApp.loadScene) :
        LET l == PairApp.loadScene[k] IN
        l.xmlContent = l.fileName /\ l.model.of = l.fileName

\* C39: currentMJCFFile and currentMJCFModel are both null or both
\* non-null, they are non-null only if the most recently loaded model is an
\* MJCF model (extension 'xml', type 'mjcf') with at least one joint, and
\* the physics bridge is only ever loaded from that pair.
C39_MJCFPair == PairTogether /\ PairOnlyForMJCF /\ LoadedFromPair

\* ---------------------------------------------------------------------
\* File clicks (FileHandler.ts)
\* A file name is its part before the last dot and the extension as
\* written; toLowerCase is given for the extensions that occur.
ClickStems == {"robot", "arm.v2", "scene"}
extToLowerCase ==
    [e \in {"urdf", "xacro", "mjcf", "xml", "usd", "usda", "usdc", "usdz", "obj",
            "stl", "dae", "gltf", "glb", "collada", "txt", "URDF", "Mjcf", "GLB",
            "STL"} |->
        CASE e = "URDF" -> "urdf" [] e = "Mjcf" -> "mjcf" [] e = "GLB" -> "glb"
          [] e = "STL" -> "stl" [] OTHER -> e]
ClickNames == [stem : ClickStems, ext : DOMAIN extToLowerCase]

\* filename.split('.').pop().toLowerCase(), lines 15 and 76
extOfName(name) == extToLowerCase[name.ext]

\* detectFileType, lines 14-21 (App.detectFileType, part_003 lines 109-116,
\* is the same function)
detectFileType(filename) ==
    LET ext == extOfName(filename) IN
    IF ext \in {"urdf", "xacro"} THEN "urdf"
    ELSE IF ext \in {"mjcf", "xml"} THEN "mjcf"
    ELSE IF ext \in {"usd", "usda", "usdc", "usdz"} THEN "usd"
    ELSE IF ext \in {"obj", "stl", "dae", "gltf", "glb"} THEN "mesh"
    ELSE "unknown"

\* handleFileClick, lines 26-44: the operations it starts for a file of the
\* tree, whose ext field is the lower-case extension of its name
handleFileClick(fileInfo, editorVisible) ==
    LET ext == fileInfo.ext
        modelExts == {"urdf", "xacro", "xml", "usd", "usda", "usdc", "usdz"}
        meshExts == {"dae", "stl", "obj", "collada"}
    IN IF ext \in modelExts
       THEN {"loadFile"} \cup (IF editorVisible THEN {"codeEditor.loadFile"} ELSE {})
       ELSE IF ext \in meshExts THEN {"loadMeshAsModel"}
       ELSE {}

CallDetectFileType(name) ==
    /\ call' = [fn |-> "detectFileType", arg |-> <<name>>, ret |-> detectFileType(name)]
    /\ UNCHANGED prog

CallHandleFileClick(name, editorVisible) ==
    /\ call' = [fn |-> "handleFileClick", arg |-> <<name, editorVisible>>,
                ret |-> handleFileClick([name |-> name, ext |-> extOfName(name)],
                                        editorVisible)]
    /\ UNCHANGED prog

NextClick ==
    \/ \E name \in ClickNames : CallDetectFileType(name)
    \/ \E name \in ClickNames, editorVisible \in BOOLEAN :
           CallHandleFileClick(name, editorVisible)

SpecClick == Init /\ [][NextClick]_vars

\* C40: a click on a file whose extension detectFileType classifies as
\* 'urdf', 'mjcf' or 'usd' starts loadFile, and a click on a file it
\* classifies as 'mesh' starts loadMeshAsModel.
C40_DetectedFilesLoad ==
    call.fn = "handleFileClick" =>
        LET type == detectFileType(call.arg[1]) IN
        /\ type \in {"urdf", "mjcf", "usd"} => "loadFile" \in call.ret
        /\ type = "mesh" => "loadMeshAsModel" \in call.ret

\* a step of handleMujocoToggleSimulate: it suspended in the load branch or
\* returned from the toggle branch
HandlerStep ==
    \/ pc'.text = pc.text + 1
    \/ obs'.op \in {"toggleOn", "toggleOff"} /\ obs' # obs

\* C27: a handleMujocoToggleSimulate that arrives while a load is suspended
\* at an await, with no scene loaded and an MJCF file current, is neither
\* turned away nor taken as a toggle: it starts one more load on the same
\* manager, so two loads are in flight at once.
C27_NoSingleFlight ==
    [][(InFlight > 0 /\ ~mgr.isLoaded /\ app.currentMJCF /\ HandlerStep)
          => (InFlight' = InFlight + 1 /\ mgr' = mgr /\ eng' = eng)]_vars

\* two loads suspended at the await of writeAssetsToVFS: the second cleared
\* the scene and wrote its XML to /working under the first
C27_Witness == pc.assets = 2 /\ "xml" \in eng.vfs /\ ~mgr.isLoaded

\* C11: every iteration of update's stepping loop clears the previously
\* applied external force and, when a drag is active on a body, applies the
\* spring force (displacement x body mass x 250, in engine coordinates, at the
\* converted hit point) before the step, on both API variants; so after an
\* update that stepped, the applied force is exactly the active drag's force,
\* or none when no drag is active.
C11_ForceEachStep ==
    [][(clock' > clock /\ obs'.steps > 0) =>
          eng'.qfrc = IF mgr.dragActive THEN dragForce(mgr.drag) ELSE NoForce]_vars

\* the same on the old API alone
ForceEachStepOldAPI ==
    [][(eng.apiOld /\ clock' > clock /\ obs'.steps > 0) =>
          eng'.qfrc = IF mgr.dragActive THEN dragForce(mgr.drag) ELSE NoForce]_vars

====
